---- MODULE Spec2Model ----
(***************************************************************************)
(* Model of the productivity-agent scheduling pipeline:                    *)
(*   GoogleCalendarService.get_free_time_slots   (free-time calculator)    *)
(*   TaskSchedulerService._schedule_tasks        (scheduler)               *)
(*   TaskSchedulerService._format_schedule       (formatter)               *)
(*   TaskSchedulerService._combine_all_tasks     (combiner)                *)
(*   TaskSchedulerService._prioritize_tasks      (priority scorer)         *)
(*   GoogleDocsService.parse_tasks_from_doc,                               *)
(*     parse_still_on_list, _parse_task_details  (log parser)              *)
(*   TaskSchedulerService.generate_complete_schedule  (complete run)       *)
(*   add_task, set_default_doc_id, get_default_doc_id  (server tools)      *)
(*                                                                         *)
(* Representation of numbers.  The source keeps clock values as float      *)
(* hours (hour + minute/60.0) and task lengths as float hours.  Here a     *)
(* clock value h is represented by the integer 60*h (minutes since         *)
(* midnight) and a task length by the integer 100*hours (hundredths of an  *)
(* hour).  All values drawn below lie on a half-hour grid resp. are        *)
(* hundredths for which the float products of the source are exact, so     *)
(* the integer arithmetic of the model agrees with the float arithmetic    *)
(* of the source on every modelled input.                                  *)
(***************************************************************************)
EXTENDS Integers, Sequences, FiniteSets, TLC

VARIABLES
    events,             \* calendar events of the target date, as returned by get_events_for_date
    work_start_hour,    \* start of the work window (hour of day)
    work_end_hour,      \* end of the work window (hour of day)
    tasks,              \* priority-ordered task list handed to _schedule_tasks
    pc,                 \* position of the run
    free_slots,         \* result of get_free_time_slots (minutes)
    available_minutes,  \* _schedule_tasks: mutable copy of the free slots, in minutes
    task_idx,           \* _schedule_tasks: index of the task the for loop is at
    scheduled,          \* _schedule_tasks: list of placed tasks
    unscheduled,        \* _schedule_tasks: list of tasks that did not fit
    taken,              \* history: minutes taken from the slots, one entry per placement
    schedule_text,      \* result of _format_schedule: list of lines, or the raised error
    carryover,          \* tasks parsed from today's section of the log (parse_tasks_from_doc)
    tasks_memory,       \* TaskSchedulerService.tasks_memory: the session task list
    still_on_list,      \* tasks parsed from the still-on-list sections (parse_still_on_list)
    all_tasks,          \* result of _combine_all_tasks
    doc,                \* the lines of the Google Doc log
    failures,           \* collaborators that are failing: "docs_read", "calendar",
                        \* "calendar_uninitialized", "docs_write"
    default_doc_id,     \* TaskSchedulerService.default_doc_id, <<>> for None
    doc_appended,       \* the schedules appended to the log by append_schedule
    result,             \* what the last operation returned to its caller
    authenticated,      \* users for which is_user_authenticated holds
    added,              \* history: per user, the tasks the user added since the last clear
    chosen_doc,         \* history: per user, the doc id the user set last, <<>> if none
    now,                \* time.time(), in seconds
    rate_limit_store,   \* SecurityService.rate_limit_store: key -> timestamps of allowed requests
    allowed_log,        \* history: key -> the times of the requests check_rate_limit allowed
    checks,             \* history: number of check_rate_limit calls made
    raw_user_id,        \* the user id handed to sanitize_user_id
    active_flows,       \* OAuthService.active_flows: state -> user id
    token_files,        \* the token files under tokens_dir: user id -> saved credentials
    issued              \* history: the states get_authorization_url issued, with their users

\* the variables of the task combiner and of what feeds it
\* the variables of the log, the collaborators and the tool calls
envVars == <<doc, failures, default_doc_id, doc_appended, result, authenticated, added,
             chosen_doc>>

\* the variables of the rate limiter, the user id sanitiser and the OAuth flow
secVars == <<now, rate_limit_store, allowed_log, checks, raw_user_id, active_flows, token_files,
             issued>>

\* everything but the variables of the scheduler run
extVars == <<carryover, tasks_memory, still_on_list, all_tasks, envVars, secVars>>

vars == <<events, work_start_hour, work_end_hour, tasks, pc, free_slots,
          available_minutes, task_idx, scheduled, unscheduled, taken, schedule_text,
          carryover, tasks_memory, still_on_list, all_tasks,
          doc, failures, default_doc_id, doc_appended, result, authenticated, added,
          chosen_doc, now, rate_limit_store, allowed_log, checks, raw_user_id,
          active_flows, token_files, issued>>

\* the variables of the scheduler run other than pc
schedVars == <<events, work_start_hour, work_end_hour, tasks, free_slots,
               available_minutes, task_idx, scheduled, unscheduled, taken, schedule_text>>

----------------------------------------------------------------------------
(* Bounds of the model *)

MaxEvents == 2        \* events per day explored for the free-time calculator
MaxSchedEvents == 1   \* events per day explored for a scheduler run
MaxTasks == 2         \* tasks per scheduler run

\* clock values (minutes since midnight) events start and end at:
\* 08:00 09:00 09:30 10:00 11:00 13:00 14:00 15:00
EventTimes == {480, 540, 570, 600, 660, 780, 840, 900}

\* work window hours explored
WorkHours == {9, 10, 11, 14}

\* task lengths explored, in hundredths of an hour: 0.01h 0.5h 1h 1.5h 2.5h
HoursSet == {1, 50, 100, 150, 250}

TaskNames == <<"A", "B", "C", "D">>

\* the users of the server
Users == {"u1", "u2"}

----------------------------------------------------------------------------
(* Inputs *)

\* no log, no failing collaborator, no tool call
EnvIdle ==
    /\ doc = <<>>
    /\ failures = {}
    /\ default_doc_id = <<>>
    /\ doc_appended = <<>>
    /\ result = <<>>
    /\ authenticated = {}
    /\ added = [u \in Users |-> <<>>]
    /\ chosen_doc = [u \in Users |-> <<>>]

\* no rate-limited request, no user id to sanitise, no OAuth flow
SecIdle ==
    /\ now = 0
    /\ rate_limit_store = <<>>
    /\ allowed_log = <<>>
    /\ checks = 0
    /\ raw_user_id = <<>>
    /\ active_flows = <<>>
    /\ token_files = <<>>
    /\ issued = <<>>

\* the combiner and what feeds it are not in use
ExtIdle ==
    /\ EnvIdle
    /\ SecIdle
    /\ carryover = <<>>
    /\ tasks_memory = <<>>
    /\ still_on_list = <<>>
    /\ all_tasks = <<>>

\* a calendar event of the data model: start < end on the target date
EventSet == {e \in [start : EventTimes, end : EventTimes] : e.start < e.end}

EventLists(n) == UNION {[1..k -> EventSet] : k \in 0..n}

\* the k-th task of the list carries the k-th name: names are distinct after
\* _combine_all_tasks, and the list order is the priority order
TaskLists(n) ==
    UNION {{[k \in 1..m |-> [name |-> TaskNames[k], hours |-> h[k]]] :
               h \in [1..m -> HoursSet]} : m \in 0..n}

----------------------------------------------------------------------------
(* GoogleCalendarService.get_free_time_slots *)

\* event_blocks.sort(key=lambda x: x['start']) : stable insertion into a sorted list
RECURSIVE InsertByStart(_, _)
InsertByStart(e, s) ==
    IF s = <<>> THEN <<e>>
    ELSE IF e.start < Head(s).start THEN <<e>> \o s
    ELSE <<Head(s)>> \o InsertByStart(e, Tail(s))

RECURSIVE SortByStart(_)
SortByStart(s) ==
    IF s = <<>> THEN <<>>
    ELSE InsertByStart(s[Len(s)], SortByStart(SubSeq(s, 1, Len(s) - 1)))

Min(a, b) == IF a < b THEN a ELSE b
Max(a, b) == IF a > b THEN a ELSE b

\* variant: the slot in front of an event is not clamped to the window end
SlotBefore_Unclamped(current_time, event, work_end) ==
    IF current_time < event.start
    THEN <<[start |-> current_time, end |-> event.start,
            duration |-> event.start - current_time]>>
    ELSE <<>>

\* lines 176-184: the free slot in front of an event, clamped to the window end
SlotBefore(current_time, event, work_end) ==
    IF current_time < event.start
    THEN LET slot_end == Min(event.start, work_end)
         IN  IF current_time < slot_end
             THEN <<[start |-> current_time, end |-> slot_end,
                     duration |-> slot_end - current_time]>>
             ELSE <<>>
    ELSE <<>>

\* variant: the cursor jumps to the end of the event even when that is earlier
AdvanceCursor_NoMax(current_time, event) == event.end

\* line 185: the cursor after an event
AdvanceCursor(current_time, event) == Max(current_time, event.end)

\* variant: the time after the last event is not reported
SlotAfter_Missing(current_time, work_end) == <<>>

\* lines 188-193: the free slot after the last event
SlotAfter(current_time, work_end) ==
    IF current_time < work_end
    THEN <<[start |-> current_time, end |-> work_end,
            duration |-> work_end - current_time]>>
    ELSE <<>>

\* lines 175-193: the sweep over the sorted event blocks
RECURSIVE Sweep(_, _, _)
Sweep(event_blocks, current_time, work_end) ==
    IF event_blocks = <<>> THEN SlotAfter(current_time, work_end)
    ELSE SlotBefore(current_time, Head(event_blocks), work_end)
         \o Sweep(Tail(event_blocks),
                  AdvanceCursor(current_time, Head(event_blocks)), work_end)

get_free_time_slots(evs, start_hour, end_hour) ==
    Sweep(SortByStart(evs), start_hour * 60, end_hour * 60)

----------------------------------------------------------------------------
(* TaskSchedulerService._schedule_tasks *)

\* variant: the minutes are rounded up
TaskMinutes_RoundUp(hours) == (hours * 60 + 99) \div 100

\* line 380: task_minutes = int(task['hours'] * 60)
TaskMinutes(hours) == (hours * 60) \div 100

\* lines 383-384: index of the first slot the whole task fits in, 0 if none
FirstFit(slots, task_minutes) ==
    IF \E k \in 1..Len(slots) : slots[k].duration >= task_minutes
    THEN CHOOSE k \in 1..Len(slots) :
            /\ slots[k].duration >= task_minutes
            /\ \A j \in 1..(k - 1) : slots[j].duration < task_minutes
    ELSE 0

\* lines 386-391: the record appended to scheduled; clock values in whole hours
Placement(task, slot, task_minutes) ==
    [name |-> task.name, hours |-> task.hours,
     start_time |-> slot.start \div 60,
     end_time |-> (slot.start + task_minutes) \div 60,
     slot_duration |-> slot.duration \div 60]

\* variant: the start of the slot is not moved
ConsumeSlot_StartKept(slot, task_minutes) ==
    [start |-> slot.start, end |-> slot.end, duration |-> slot.duration - task_minutes]

\* lines 394-395: the slot after the task has been fitted
ConsumeSlot(slot, task_minutes) ==
    [start |-> slot.start + task_minutes, end |-> slot.end,
     duration |-> slot.duration - task_minutes]

\* lines 357-376: fetch the free slots and convert them to minutes
StartScheduling ==
    /\ pc \in {"start", "prioritized"}
    /\ free_slots' = get_free_time_slots(events, work_start_hour, work_end_hour)
    /\ available_minutes' = free_slots'
    /\ scheduled' = <<>>
    /\ unscheduled' = <<>>
    /\ task_idx' = 1
    /\ pc' = "sched"
    /\ UNCHANGED <<events, work_start_hour, work_end_hour, tasks, taken, schedule_text>>
    /\ UNCHANGED extVars

\* variant: fitted is not set, the fitted task is appended to unscheduled as well
FitTask_NotMarked ==
    /\ pc = "sched"
    /\ task_idx <= Len(tasks)
    /\ LET task == tasks[task_idx]
           task_minutes == TaskMinutes(task.hours)
           k == FirstFit(available_minutes, task_minutes)
       IN  /\ k # 0
           /\ scheduled' = Append(scheduled, Placement(task, available_minutes[k], task_minutes))
           /\ unscheduled' = Append(unscheduled, task)
           /\ taken' = Append(taken, [name |-> task.name, slot |-> k,
                                      from |-> available_minutes[k].start,
                                      minutes |-> task_minutes])
           /\ available_minutes' = [available_minutes EXCEPT
                                       ![k] = ConsumeSlot(available_minutes[k], task_minutes)]
    /\ task_idx' = task_idx + 1
    /\ UNCHANGED <<events, work_start_hour, work_end_hour, tasks, pc, free_slots,
                   schedule_text>>
    /\ UNCHANGED extVars

\* lines 379-397: one iteration of the task loop in which the task fits a slot
FitTask ==
    /\ pc = "sched"
    /\ task_idx <= Len(tasks)
    /\ LET task == tasks[task_idx]
           task_minutes == TaskMinutes(task.hours)
           k == FirstFit(available_minutes, task_minutes)
       IN  /\ k # 0
           /\ scheduled' = Append(scheduled, Placement(task, available_minutes[k], task_minutes))
           /\ taken' = Append(taken, [name |-> task.name, slot |-> k,
                                      from |-> available_minutes[k].start,
                                      minutes |-> task_minutes])
           /\ available_minutes' = [available_minutes EXCEPT
                                       ![k] = ConsumeSlot(available_minutes[k], task_minutes)]
    /\ task_idx' = task_idx + 1
    /\ UNCHANGED <<events, work_start_hour, work_end_hour, tasks, pc, free_slots,
                   unscheduled, schedule_text>>
    /\ UNCHANGED extVars

\* variant: a task that fits nowhere is dropped
DeferTask_Dropped ==
    /\ pc = "sched"
    /\ task_idx <= Len(tasks)
    /\ FirstFit(available_minutes, TaskMinutes(tasks[task_idx].hours)) = 0
    /\ task_idx' = task_idx + 1
    /\ UNCHANGED <<events, work_start_hour, work_end_hour, tasks, pc, free_slots,
                   available_minutes, scheduled, unscheduled, taken, schedule_text>>
    /\ UNCHANGED extVars

\* lines 379-384, 399-400: one iteration of the task loop in which no slot fits
DeferTask ==
    /\ pc = "sched"
    /\ task_idx <= Len(tasks)
    /\ FirstFit(available_minutes, TaskMinutes(tasks[task_idx].hours)) = 0
    /\ unscheduled' = Append(unscheduled, tasks[task_idx])
    /\ task_idx' = task_idx + 1
    /\ UNCHANGED <<events, work_start_hour, work_end_hour, tasks, pc, free_slots,
                   available_minutes, scheduled, taken, schedule_text>>
    /\ UNCHANGED extVars

\* lines 402-407: the loop is over, the schedule is returned
ReturnSchedule ==
    /\ pc = "sched"
    /\ task_idx > Len(tasks)
    /\ pc' = "done"
    /\ UNCHANGED <<events, work_start_hour, work_end_hour, tasks, free_slots,
                   available_minutes, task_idx, scheduled, unscheduled, taken, schedule_text>>
    /\ UNCHANGED extVars

----------------------------------------------------------------------------
(* TaskSchedulerService._format_schedule *)

\* the text returned when _format_schedule raises
ValueError == <<[kind |-> "ValueError"]>>

\* lines 439-452: one line per meeting, in the order of the event list
MeetingLines(meetings) ==
    [k \in 1..Len(meetings) |->
        [kind |-> "meeting", start |-> meetings[k].start, end |-> meetings[k].end]]

\* lines 455-460: the still-on-list section, only when there are unscheduled tasks
StillOnListLines(unsched) ==
    IF unsched # <<>>
    THEN <<[kind |-> "blank"], [kind |-> "still_header"]>>
         \o [k \in 1..Len(unsched) |->
                [kind |-> "still", name |-> unsched[k].name, hours |-> unsched[k].hours]]
    ELSE <<>>

\* lines 425-465.  start_time and end_time of a placement are floats
\* (slot['start'] derives from float(work_start_hour)), so the format code
\* 02d of lines 431-432 raises ValueError as soon as one task is scheduled.
format_schedule(sched, meetings, unsched) ==
    IF sched # <<>> THEN ValueError
    ELSE <<[kind |-> "date_header"], [kind |-> "blank"]>>
         \o MeetingLines(meetings)
         \o StillOnListLines(unsched)
         \o <<[kind |-> "blank"], [kind |-> "separator"]>>

FormatSchedule ==
    /\ pc = "done"
    /\ schedule_text' = format_schedule(scheduled, events, unscheduled)
    /\ pc' = "formatted"
    /\ UNCHANGED <<events, work_start_hour, work_end_hour, tasks, free_slots,
                   available_minutes, task_idx, scheduled, unscheduled, taken>>
    /\ UNCHANGED extVars

----------------------------------------------------------------------------
(* Specification of a scheduler run *)

Init ==
    /\ events \in EventLists(MaxSchedEvents)
    /\ work_start_hour \in WorkHours
    /\ work_end_hour \in WorkHours
    /\ work_start_hour < work_end_hour
    /\ tasks \in TaskLists(MaxTasks)
    /\ pc = "start"
    /\ free_slots = <<>>
    /\ available_minutes = <<>>
    /\ task_idx = 0
    /\ scheduled = <<>>
    /\ unscheduled = <<>>
    /\ taken = <<>>
    /\ schedule_text = <<>>
    /\ ExtIdle

Next ==
    \/ StartScheduling
    \/ FitTask
    \/ DeferTask
    \/ ReturnSchedule
    \/ FormatSchedule

Spec == Init /\ [][Next]_vars

----------------------------------------------------------------------------
(* Specification of the free-time calculator alone *)

GetFreeTimeSlots ==
    /\ pc = "free_start"
    /\ free_slots' = get_free_time_slots(events, work_start_hour, work_end_hour)
    /\ pc' = "free_done"
    /\ UNCHANGED <<events, work_start_hour, work_end_hour, tasks, available_minutes,
                   task_idx, scheduled, unscheduled, taken, schedule_text>>
    /\ UNCHANGED extVars

InitFree ==
    /\ events \in EventLists(MaxEvents)
    /\ work_start_hour \in WorkHours
    /\ work_end_hour \in WorkHours
    /\ work_start_hour < work_end_hour
    /\ tasks = <<>>
    /\ pc = "free_start"
    /\ free_slots = <<>>
    /\ available_minutes = <<>>
    /\ task_idx = 0
    /\ scheduled = <<>>
    /\ unscheduled = <<>>
    /\ taken = <<>>
    /\ schedule_text = <<>>
    /\ ExtIdle

NextFree == GetFreeTimeSlots

SpecFree == InitFree /\ [][NextFree]_vars

----------------------------------------------------------------------------
(* Quantities the properties speak about *)

\* minutes taken from the free slots for the task of the given name
RECURSIVE SumMinutes(_, _)
SumMinutes(name, tk) ==
    IF tk = <<>> THEN 0
    ELSE (IF Head(tk).name = name THEN Head(tk).minutes ELSE 0) + SumMinutes(name, Tail(tk))

ScheduledMinutes(name) == SumMinutes(name, taken)

\* the task is scheduled for its full duration (hours are hundredths of an hour)
FullyScheduled(task) == ScheduledMinutes(task.name) * 100 >= task.hours * 60

\* the task has been given all the minutes the scheduler converts its hours to
PlacedInFull(task) == ScheduledMinutes(task.name) >= TaskMinutes(task.hours)

Finished == pc \in {"done", "formatted"}

\* index of the earliest slot with remaining time, 0 if there is none
EarliestOpen(slots) ==
    IF \E k \in 1..Len(slots) : slots[k].duration > 0
    THEN CHOOSE k \in 1..Len(slots) :
            /\ slots[k].duration > 0
            /\ \A j \in 1..(k - 1) : slots[j].duration = 0
    ELSE 0

\* the still-on-list entries of the rendered plan
StillOnListOutput ==
    IF schedule_text = ValueError THEN <<>>
    ELSE SelectSeq(schedule_text, LAMBDA l : l.kind = "still")

----------------------------------------------------------------------------
(* Scheduler properties *)

\* C1: after (and during) scheduling, the minutes scheduled for a task, summed
\* over all its occurrences, never exceed totalHours*60.
C1_NeverOverAllocated ==
    \A k \in 1..Len(tasks) :
        ScheduledMinutes(tasks[k].name) * 100 <= tasks[k].hours * 60

\* a finished run in which two tasks were placed, one of them for exactly its
\* full duration of an hour or more
C1_Witness ==
    /\ pc = "done"
    /\ Len(taken) = 2
    /\ \E k \in 1..Len(tasks) :
          /\ tasks[k].hours >= 100
          /\ ScheduledMinutes(tasks[k].name) * 100 = tasks[k].hours * 60

\* C2: a task that needs more minutes than the earliest slot with remaining
\* time can give takes all remaining minutes of that slot and continues in the
\* next one, one occurrence per slot; free slots [9,11) and [13,14) with one
\* 2.5h task give the occurrences 09:00-11:00 and 13:00-13:30 and nothing
\* still on list.
C2_Scenario ==
    (/\ Finished
     /\ work_start_hour = 9 /\ work_end_hour = 14
     /\ events = <<[start |-> 660, end |-> 780]>>
     /\ tasks = <<[name |-> "A", hours |-> 250]>>)
    => /\ taken = <<[name |-> "A", slot |-> 1, from |-> 540, minutes |-> 120],
                    [name |-> "A", slot |-> 2, from |-> 780, minutes |-> 30]>>
       /\ unscheduled = <<>>

C2_Step ==
    (/\ pc = "sched"
     /\ task_idx <= Len(tasks)
     /\ EarliestOpen(available_minutes) # 0
     /\ tasks[task_idx].hours * 60 >
            available_minutes[EarliestOpen(available_minutes)].duration * 100)
    => LET k == EarliestOpen(available_minutes)
       IN  /\ available_minutes'[k].duration = 0
           /\ \E n \in 1..Len(taken') :
                 taken'[n] = [name |-> tasks[task_idx].name, slot |-> k,
                              from |-> available_minutes[k].start,
                              minutes |-> available_minutes[k].duration]

C2_SplitsAcrossSlots == [](C2_Scenario) /\ [][C2_Step]_vars

\* C3: when the scheduler finishes, either no free slot retains remaining
\* minutes or every task has been scheduled for its full duration.
C3_NoIdleTimeWithPendingTask ==
    pc = "done" =>
        \/ \A k \in 1..Len(available_minutes) : available_minutes[k].duration = 0
        \/ \A k \in 1..Len(tasks) : PlacedInFull(tasks[k])

\* C4: the still-on-list output holds exactly the tasks whose scheduled
\* minutes are less than totalHours*60, each with remaining = total minus
\* scheduled; a task with nothing remaining is never on it.  Stated of the
\* unscheduled list of the schedule and of the rendered still-on-list lines.
C4_StillOnListExact ==
    /\ Finished =>
          /\ \A k \in 1..Len(tasks) :
                (\E j \in 1..Len(unscheduled) : unscheduled[j].name = tasks[k].name)
                    <=> ~FullyScheduled(tasks[k])
          /\ \A j \in 1..Len(unscheduled) : \A k \in 1..Len(tasks) :
                tasks[k].name = unscheduled[j].name =>
                    unscheduled[j].hours * 60 =
                        tasks[k].hours * 60 - ScheduledMinutes(tasks[k].name) * 100
    /\ pc = "formatted" =>
          \A k \in 1..Len(tasks) :
             (\E j \in 1..Len(StillOnListOutput) :
                 StillOnListOutput[j].name = tasks[k].name)
                 <=> ~FullyScheduled(tasks[k])

\* C5: whenever a task has received scheduled minutes, every task before it
\* in the priority order has been scheduled for its full duration.
C5_PriorityOrder ==
    \A n \in 1..Len(taken) : \A k \in 1..Len(tasks) :
        (tasks[k].name = taken[n].name /\ taken[n].minutes > 0)
            => \A h \in 1..(k - 1) : PlacedInFull(tasks[h])

\* C6: a task that is not placed because no free slot has room is no error:
\* the run goes on and finishes, the task is on the unscheduled list with its
\* full totalHours, and the placements made before stay as they were; free
\* slot [9,10) with 1h tasks A, B gives A at 09:00-10:00 and B still on list
\* with 1.0h.
C6_Unplaced(k) == \A n \in 1..Len(scheduled) : scheduled[n].name # tasks[k].name

C6_Final ==
    Finished =>
        /\ \A k \in 1..Len(tasks) :
              C6_Unplaced(k) => \E j \in 1..Len(unscheduled) : unscheduled[j] = tasks[k]
        /\ (/\ work_start_hour = 9 /\ work_end_hour = 10 /\ events = <<>>
            /\ tasks = <<[name |-> "A", hours |-> 100], [name |-> "B", hours |-> 100]>>)
           => /\ Len(scheduled) = 1
              /\ scheduled[1].name = "A"
              /\ scheduled[1].start_time = 9 /\ scheduled[1].end_time = 10
              /\ unscheduled = <<[name |-> "B", hours |-> 100]>>

C6_Step ==
    /\ pc = "sched" =>
          /\ Len(scheduled') >= Len(scheduled)
          /\ SubSeq(scheduled', 1, Len(scheduled)) = scheduled
          /\ SubSeq(taken', 1, Len(taken)) = taken
    /\ (/\ pc = "sched"
        /\ task_idx <= Len(tasks)
        /\ \A k \in 1..Len(available_minutes) :
              available_minutes[k].duration < TaskMinutes(tasks[task_idx].hours))
       => /\ pc' = "sched"
          /\ task_idx' = task_idx + 1
          /\ available_minutes' = available_minutes

C7_OccurrenceCoversMinutes ==
    \A n \in 1..Len(scheduled) :
        /\ scheduled[n].start_time * 60 = taken[n].from
        /\ scheduled[n].end_time * 60 = scheduled[n].start_time * 60 + taken[n].minutes

----------------------------------------------------------------------------
(* Free-time calculator properties *)

InSlot(m) == \E k \in 1..Len(free_slots) : free_slots[k].start <= m /\ m < free_slots[k].end
InEvent(m) == \E k \in 1..Len(events) : events[k].start <= m /\ m < events[k].end

\* C8: for events with start < end (overlapping or reaching outside the window
\* included) and a window with workStart < workEnd, the free slots are exactly
\* the complement of the events inside the window: every instant of the window
\* is in a free slot or in an event, never in both, and no slot meets an event.
C8_ExactComplement ==
    pc = "free_done" =>
        /\ \A m \in (work_start_hour * 60)..(work_end_hour * 60 - 1) :
              InSlot(m) <=> ~InEvent(m)
        /\ \A k \in 1..Len(free_slots) : \A j \in 1..Len(events) :
              ~(free_slots[k].start < events[j].end /\ events[j].start < free_slots[k].end)
        /\ \A k \in 1..Len(free_slots) :
              /\ work_start_hour * 60 <= free_slots[k].start
              /\ free_slots[k].end <= work_end_hour * 60

\* two overlapping events, the later-starting one ending first, one of them
\* reaching out of the window, and free time left
C8_Witness ==
    /\ pc = "free_done"
    /\ Len(events) = 2
    /\ events[1].start < events[2].start
    /\ events[2].end < events[1].end
    /\ events[1].start < work_start_hour * 60
    /\ events[1].end < work_end_hour * 60
    /\ Len(free_slots) = 1

\* C9: the free-slot list is sorted by ascending start, pairwise
\* non-overlapping, every slot has positive width with duration = end - start,
\* and every slot lies inside [workStart, workEnd].
C9_SlotsWellFormed ==
    pc = "free_done" =>
        /\ \A k \in 1..Len(free_slots) :
              /\ free_slots[k].start < free_slots[k].end
              /\ free_slots[k].duration = free_slots[k].end - free_slots[k].start
              /\ work_start_hour * 60 <= free_slots[k].start
              /\ free_slots[k].end <= work_end_hour * 60
        /\ \A k \in 1..(Len(free_slots) - 1) :
              /\ free_slots[k].start < free_slots[k + 1].start
              /\ free_slots[k].end <= free_slots[k + 1].start

\* three slots around two events that are given in descending order of start
C9_Witness ==
    /\ pc = "free_done"
    /\ Len(events) = 2
    /\ events[2].start < events[1].start
    /\ Len(free_slots) = 3

\* C10: with zero calendar events the result is the single slot
\* [workStart, workEnd).
C10_NoEventsOneSlot ==
    (pc = "free_done" /\ events = <<>>) =>
        free_slots = <<[start |-> work_start_hour * 60, end |-> work_end_hour * 60,
                        duration |-> (work_end_hour - work_start_hour) * 60]>>

C10_Witness ==
    /\ pc = "free_done"
    /\ events = <<>>
    /\ Len(free_slots) = 1
    /\ work_start_hour = 9 /\ work_end_hour = 14

----------------------------------------------------------------------------
(* TaskSchedulerService._combine_all_tasks *)

MaxList == 2          \* tasks per source list explored for the combiner

CombineNames == {"A", "B"}

\* hours (hundredths), urgency and due date of the records the combiner is run on;
\* a due date is <<>> (None) or <<d>>, d the number of days from today to the date
CombineProfiles ==
    {[hours |-> 100, urgency |-> "high", due_date |-> <<>>],
     [hours |-> 200, urgency |-> "low", due_date |-> <<1>>]}

CombineRecords(source) ==
    {[name |-> n, hours |-> p.hours, urgency |-> p.urgency,
      due_date |-> p.due_date, source |-> source] :
        n \in CombineNames, p \in CombineProfiles}

SourceLists(source) == UNION {[1..k -> CombineRecords(source)] : k \in 0..MaxList}

\* variant: a later record of a known name replaces the one kept
KeepFirst_LastWins(unique_tasks, task) ==
    IF \E k \in 1..Len(unique_tasks) : unique_tasks[k].name = task.name
    THEN [k \in 1..Len(unique_tasks) |->
             IF unique_tasks[k].name = task.name THEN task ELSE unique_tasks[k]]
    ELSE Append(unique_tasks, task)

\* variant: every record is kept
KeepFirst_NoCheck(unique_tasks, task) == Append(unique_tasks, task)

\* lines 291-293: a task is appended unless its name has been seen
\* (seen_names is the set of the names in unique_tasks)
KeepFirst(unique_tasks, task) ==
    IF \E k \in 1..Len(unique_tasks) : unique_tasks[k].name = task.name
    THEN unique_tasks
    ELSE Append(unique_tasks, task)

\* lines 287-293: the loop over all_tasks
RECURSIVE Dedup(_, _)
Dedup(all, unique_tasks) ==
    IF all = <<>> THEN unique_tasks
    ELSE Dedup(Tail(all), KeepFirst(unique_tasks, Head(all)))

\* lines 283-296
combine_all_tasks(carry, new, still) == Dedup(carry \o new \o still, <<>>)

CombineAllTasks ==
    /\ pc = "comb_start"
    /\ all_tasks' = combine_all_tasks(carryover, tasks_memory, still_on_list)
    /\ pc' = "combined"
    /\ UNCHANGED <<carryover, tasks_memory, still_on_list>>
    /\ UNCHANGED envVars
    /\ UNCHANGED schedVars
    /\ UNCHANGED secVars

\* the combiner applied to its own result, as the single source
CombineAgain ==
    /\ pc = "combined"
    /\ all_tasks' = combine_all_tasks(all_tasks, <<>>, <<>>)
    /\ pc' = "recombined"
    /\ UNCHANGED <<carryover, tasks_memory, still_on_list>>
    /\ UNCHANGED envVars
    /\ UNCHANGED schedVars
    /\ UNCHANGED secVars

SchedIdle ==
    /\ events = <<>>
    /\ work_start_hour = 9
    /\ work_end_hour = 15
    /\ tasks = <<>>
    /\ free_slots = <<>>
    /\ available_minutes = <<>>
    /\ task_idx = 0
    /\ scheduled = <<>>
    /\ unscheduled = <<>>
    /\ taken = <<>>
    /\ schedule_text = <<>>

InitCombine ==
    /\ carryover \in SourceLists("carryover")
    /\ tasks_memory \in SourceLists("add_task")
    /\ still_on_list \in SourceLists("still_on_list")
    /\ all_tasks = <<>>
    /\ pc = "comb_start"
    /\ SchedIdle
    /\ EnvIdle
    /\ SecIdle

NextCombine == CombineAllTasks \/ CombineAgain

SpecCombine == InitCombine /\ [][NextCombine]_vars

----------------------------------------------------------------------------
(* Combiner properties *)

CombineInput == carryover \o tasks_memory \o still_on_list

\* position of the first record of the name in the combiner's input
FirstIndex(name) ==
    CHOOSE i \in 1..Len(CombineInput) :
        /\ CombineInput[i].name = name
        /\ \A j \in 1..(i - 1) : CombineInput[j].name # name

\* the list with every record tagged with the given source
Retag(list, source) ==
    [k \in 1..Len(list) |-> [list[k] EXCEPT !.source = source]]

\* C11: the combined list has no two tasks of the same name, is in first-seen
\* order over carryover, new, still-on-list, keeps for every name the whole
\* record of its first occurrence, and contains every name of the inputs.
C11_CombineFirstSeen ==
    pc = "combined" =>
        /\ \A k, l \in 1..Len(all_tasks) :
              k # l => all_tasks[k].name # all_tasks[l].name
        /\ \A k \in 1..Len(all_tasks) :
              /\ \E i \in 1..Len(CombineInput) : CombineInput[i].name = all_tasks[k].name
              /\ all_tasks[k] = CombineInput[FirstIndex(all_tasks[k].name)]
        /\ \A k, l \in 1..Len(all_tasks) :
              k < l => FirstIndex(all_tasks[k].name) < FirstIndex(all_tasks[l].name)
        /\ \A i \in 1..Len(CombineInput) :
              \E k \in 1..Len(all_tasks) : all_tasks[k].name = CombineInput[i].name

\* a name occurs in all three lists with different records and the carryover
\* record is the one kept, behind a task that only the carryover list has
C11_Witness ==
    /\ pc = "combined"
    /\ Len(carryover) = 2 /\ Len(tasks_memory) >= 1 /\ Len(still_on_list) >= 1
    /\ carryover[1].name = "B" /\ carryover[2].name = "A"
    /\ tasks_memory[1].name = "A" /\ tasks_memory[1].hours # carryover[2].hours
    /\ still_on_list[1].name = "A"
    /\ all_tasks = carryover

\* C12: combining L as carryover with L again as still-on-list and no new
\* tasks gives the same tasks as combining L alone, and combining an already
\* deduplicated list leaves it unchanged.
C12_SelfCombine ==
    (/\ pc = "combined"
     /\ tasks_memory = <<>>
     /\ Retag(still_on_list, "carryover") = carryover)
    => all_tasks = combine_all_tasks(carryover, <<>>, <<>>)

C12_Recombine == pc = "combined" => all_tasks' = all_tasks

C12_Idempotent == [](C12_SelfCombine) /\ [][C12_Recombine]_vars

\* a list with a repeated name combined with itself, and then combined again
C12_Witness ==
    /\ pc = "recombined"
    /\ tasks_memory = <<>>
    /\ Len(carryover) = 2
    /\ carryover[1].name = carryover[2].name
    /\ carryover[1] # carryover[2]
    /\ Retag(still_on_list, "carryover") = carryover
    /\ all_tasks = <<carryover[1]>>

----------------------------------------------------------------------------
(* TaskSchedulerService._prioritize_tasks *)

MaxPrioTasks == 2     \* tasks per run of the priority scorer

Urgencies == {"critical", "high", "medium", "low"}

Sources == {"carryover", "add_task", "still_on_list"}

\* due dates explored: None, yesterday, today, tomorrow, in 2, 7, 8 days
DueDates == {<<>>, <<-1>>, <<0>>, <<1>>, <<2>>, <<7>>, <<8>>}

\* urgency, due date and source of a task
PrioProfiles == [urgency : Urgencies, due_date : DueDates, source : Sources]

\* a combined list: the k-th task carries the k-th name (names are distinct
\* after _combine_all_tasks)
PrioList(p) ==
    [k \in 1..Len(p) |-> [name |-> TaskNames[k], hours |-> 100, urgency |-> p[k].urgency,
                          due_date |-> p[k].due_date, source |-> p[k].source]]

\* lines 309-318: urgency_weights.get(task.get("urgency", "medium"), 4)
UrgencyWeight(urgency) ==
    CASE urgency = "critical" -> 10
      [] urgency = "high" -> 7
      [] urgency = "medium" -> 4
      [] urgency = "low" -> 1
      [] OTHER -> 4

\* lines 321-331: days_until_due <= 0: 5, == 1: 3, <= 7: 1
DueDateWeight(due_date) ==
    IF due_date = <<>> THEN 0
    ELSE LET days_until_due == due_date[1]
         IN  IF days_until_due <= 0 THEN 5
             ELSE IF days_until_due = 1 THEN 3
             ELSE IF days_until_due <= 7 THEN 1
             ELSE 0

\* variant: only tasks parsed from today's section are boosted
CarryoverBoost_CarryoverOnly(source) == IF source = "carryover" THEN 3 ELSE 0

\* lines 334-335
CarryoverBoost(source) == IF source \in {"carryover", "still_on_list"} THEN 3 ELSE 0

\* lines 316-337: the score of a task
Score(task) ==
    UrgencyWeight(task.urgency) + DueDateWeight(task.due_date) + CarryoverBoost(task.source)

\* line 337: task["priority_score"] = score, the other keys kept
WithScore(task) ==
    [f \in (DOMAIN task) \cup {"priority_score"} |->
        IF f = "priority_score" THEN Score(task) ELSE task[f]]

\* line 340: sorted(tasks, key=priority_score, reverse=True) keeps the order
\* of tasks of equal score
RECURSIVE InsertByScore(_, _)
InsertByScore(t, s) ==
    IF s = <<>> THEN <<t>>
    ELSE IF t.priority_score > Head(s).priority_score THEN <<t>> \o s
    ELSE <<Head(s)>> \o InsertByScore(t, Tail(s))

RECURSIVE SortByScore(_)
SortByScore(s) ==
    IF s = <<>> THEN <<>>
    ELSE InsertByScore(s[Len(s)], SortByScore(SubSeq(s, 1, Len(s) - 1)))

\* lines 316-337: the tasks of the list, each with its score
Scored(list) == [k \in 1..Len(list) |-> WithScore(list[k])]

\* lines 298-342
prioritize_tasks(list) == SortByScore(Scored(list))

\* lines 290-293: the k-th session task is one of the records of the combined
\* list (the first record of its name)
SessionTaskKept(k) ==
    /\ \A j \in 1..Len(carryover) : carryover[j].name # tasks_memory[k].name
    /\ \A j \in 1..(k - 1) : tasks_memory[j].name # tasks_memory[k].name

\* generate_complete_schedule line 240.  The scores are written into the
\* records of the list passed in, which are the very records of the session
\* list where a session task was kept by the combiner.
PrioritizeTasks ==
    /\ pc \in {"prio_start", "combined"}
    /\ tasks' = prioritize_tasks(all_tasks)
    /\ all_tasks' = Scored(all_tasks)
    /\ tasks_memory' = [k \in 1..Len(tasks_memory) |->
                            IF SessionTaskKept(k) THEN WithScore(tasks_memory[k])
                            ELSE tasks_memory[k]]
    /\ pc' = "prioritized"
    /\ UNCHANGED <<carryover, still_on_list>>
    /\ UNCHANGED envVars
    /\ UNCHANGED <<events, work_start_hour, work_end_hour, free_slots, available_minutes,
                   task_idx, scheduled, unscheduled, taken, schedule_text>>
    /\ UNCHANGED secVars

InitPrio ==
    /\ \E m \in 0..MaxPrioTasks : \E p \in [1..m -> PrioProfiles] : all_tasks = PrioList(p)
    /\ carryover = <<>>
    /\ tasks_memory = <<>>
    /\ still_on_list = <<>>
    /\ pc = "prio_start"
    /\ SchedIdle
    /\ EnvIdle
    /\ SecIdle

NextPrio == PrioritizeTasks

SpecPrio == InitPrio /\ [][NextPrio]_vars

----------------------------------------------------------------------------
(* Priority scorer properties *)

\* the score the data model gives a task
C13_Expected(task) ==
    (CASE task.urgency = "critical" -> 10
       [] task.urgency = "high" -> 7
       [] task.urgency = "medium" -> 4
       [] task.urgency = "low" -> 1)
    + (IF task.due_date = <<>> THEN 0
       ELSE IF task.due_date[1] <= 0 THEN 5
       ELSE IF task.due_date[1] = 1 THEN 3
       ELSE IF task.due_date[1] >= 2 /\ task.due_date[1] <= 7 THEN 1
       ELSE 0)
    + (IF task.source \in {"carryover", "still_on_list"} THEN 3 ELSE 0)

\* position of the task of the given name in the combined list
CombinedIndex(name) == CHOOSE i \in 1..Len(all_tasks) : all_tasks[i].name = name

\* C13: every task gets the score urgencyWeight + dueDateWeight +
\* carryoverBoost, and the tasks are returned sorted by descending score, tasks
\* of equal score in the Combiner's relative order.
C13_ScoreAndOrder ==
    pc = "prioritized" =>
        /\ Len(tasks) = Len(all_tasks)
        /\ \A i \in 1..Len(all_tasks) : \E k \in 1..Len(tasks) : tasks[k] = all_tasks[i]
        /\ \A k \in 1..Len(tasks) : tasks[k].priority_score = C13_Expected(tasks[k])
        /\ \A k, l \in 1..Len(tasks) :
              k < l =>
                 /\ tasks[k].priority_score >= tasks[l].priority_score
                 /\ tasks[k].priority_score = tasks[l].priority_score
                       => CombinedIndex(tasks[k].name) < CombinedIndex(tasks[l].name)

\* a session task of high urgency and a still-on-list task of medium urgency
\* tie at 7 and keep their order; the still-on-list boost is what makes the tie
C13_Witness ==
    /\ pc = "prioritized"
    /\ Len(tasks) = 2
    /\ tasks[1].name = "A" /\ tasks[1].source = "add_task" /\ tasks[1].urgency = "high"
    /\ tasks[1].due_date = <<>>
    /\ tasks[2].name = "B" /\ tasks[2].source = "still_on_list" /\ tasks[2].urgency = "medium"
    /\ tasks[2].due_date = <<>>
    /\ tasks[1].priority_score = 7 /\ tasks[2].priority_score = 7

----------------------------------------------------------------------------
(* GoogleDocsService: the log parser *)

MaxLines == 4         \* lines per log explored for the parser

\* a name of 501 characters and one of 500
LongName == "xxxxxxxxxxxxxxxxxxxxxxxxxxxxxxxxxxxxxxxxxxxxxxxxxxxxxxxxxxxxxxxxxxxxxxxxxxxxxxxxxxxxxxxxxxxxxxxxxxxxxxxxxxxxxxxxxxxxxxxxxxxxxxxxxxxxxxxxxxxxxxxxxxxxxxxxxxxxxxxxxxxxxxxxxxxxxxxxxxxxxxxxxxxxxxxxxxxxxxxxxxxxxxxxxxxxxxxxxxxxxxxxxxxxxxxxxxxxxxxxxxxxxxxxxxxxxxxxxxxxxxxxxxxxxxxxxxxxxxxxxxxxxxxxxxxxxxxxxxxxxxxxxxxxxxxxxxxxxxxxxxxxxxxxxxxxxxxxxxxxxxxxxxxxxxxxxxxxxxxxxxxxxxxxxxxxxxxxxxxxxxxxxxxxxxxxxxxxxxxxxxxxxxxxxxxxxxxxxxxxxxxxxxxxxxxxxxxxxxxxxxxxxxxxxxxxxxxxxxxxxxxxxxxxxxxxxxxxxxxxxxxxxxxxxxxxxxxxxxxxx"
Name500 == "yyyyyyyyyyyyyyyyyyyyyyyyyyyyyyyyyyyyyyyyyyyyyyyyyyyyyyyyyyyyyyyyyyyyyyyyyyyyyyyyyyyyyyyyyyyyyyyyyyyyyyyyyyyyyyyyyyyyyyyyyyyyyyyyyyyyyyyyyyyyyyyyyyyyyyyyyyyyyyyyyyyyyyyyyyyyyyyyyyyyyyyyyyyyyyyyyyyyyyyyyyyyyyyyyyyyyyyyyyyyyyyyyyyyyyyyyyyyyyyyyyyyyyyyyyyyyyyyyyyyyyyyyyyyyyyyyyyyyyyyyyyyyyyyyyyyyyyyyyyyyyyyyyyyyyyyyyyyyyyyyyyyyyyyyyyyyyyyyyyyyyyyyyyyyyyyyyyyyyyyyyyyyyyyyyyyyyyyyyyyyyyyyyyyyyyyyyyyyyyyyyyyyyyyyyyyyyyyyyyyyyyyyyyyyyyyyyyyyyyyyyyyyyyyyyyyyyyyyyyyyyyyyyyyyyyyyyyyyyyyyyyyyyyyyyyyyyyyyyyy"

\* A log line is described by what the parser tests on its stripped text:
\*   date_header  matches \d{1,2}/\d{1,2}/\d{2,4}\s*-\s*\w+ ; day tells whether the
\*                date is today's (the text then contains today's %m/%d/%y)
\*   marker       a line with the given phrase and no leading dash
\*   task         starts with '-'; name is the text before the first '(',
\*                glyph tells whether a check mark occurs in the text, details
\*                is <<>> when there is no (...) block and otherwise holds the
\*                number in front of 'h' in hundredths (<<>> if none), the
\*                urgency keywords occurring in the lower-cased block and the
\*                date after 'due ' as days from today (<<>> if none)
DateHeader(day) == [text |-> "date_header", day |-> day]

Marker(phrase) == [text |-> "marker", phrase |-> phrase]

Details(hours, keywords, due) == <<[hours |-> hours, keywords |-> keywords, due |-> due]>>

TaskLine(name, glyph, details) ==
    [text |-> "task", name |-> name, glyph |-> glyph, details |-> details]

\* the lines logs are made of:
\*   - A (2h, urgent)          - A ✓ (2h, urgent)       - B
\*   - C (0h, low)             - (critical)              - D (1.5h - due <tomorrow>)
\*   - <501 characters> (1h, high)
LogLines ==
    {DateHeader("today"), DateHeader("other"),
     Marker("Still on list"), Marker("STILL ON LIST"),
     TaskLine("A", FALSE, Details(<<200>>, {"urgent"}, <<>>)),
     TaskLine("A", TRUE, Details(<<200>>, {"urgent"}, <<>>)),
     TaskLine("B", FALSE, <<>>),
     TaskLine("C", FALSE, Details(<<0>>, {"low"}, <<>>)),
     TaskLine("", FALSE, Details(<<>>, {"critical"}, <<>>)),
     TaskLine("D", FALSE, Details(<<150>>, {}, <<1>>)),
     TaskLine(LongName, FALSE, Details(<<100>>, {"high"}, <<>>))}

Logs(n) == UNION {[1..k -> LogLines] : k \in 0..n}

\* lines 141, 201: re.match of the date header pattern
IsDateHeader(line) == line.text = "date_header"

\* lines 146, 151: today_pattern in line
HasToday(line) == line.text = "date_header" /\ line.day = "today"

\* line 196: 'Still on list' in line or 'still on list' in line
HasMarker(line) == line.text = "marker" /\ line.phrase \in {"Still on list", "still on list"}

\* lines 151, 206: line.startswith('-')
IsTaskLine(line) == line.text = "task"

\* variant: check marks are not looked at
Completed_Ignored(line) == FALSE

\* lines 155, 210: a check mark in the task text
Completed(line) == line.glyph

\* lines 250-259: the first keyword of urgent, high, critical, low found
ParsedUrgency(keywords) ==
    IF "urgent" \in keywords THEN "urgent"
    ELSE IF "high" \in keywords THEN "high"
    ELSE IF "critical" \in keywords THEN "critical"
    ELSE IF "low" \in keywords THEN "low"
    ELSE "medium"

\* lines 238-279: <<>> for None, else the one task record
parse_task_details(line) ==
    IF line.details = <<>> THEN <<>>
    ELSE LET details == line.details[1]
         IN  <<[name |-> line.name,
                hours |-> IF details.hours = <<>> THEN 100 ELSE details.hours[1],
                urgency |-> ParsedUrgency(details.keywords),
                due_date |-> details.due]>>

\* lines 159-162, 214-217: the records a task line adds to the result
TaskRecords(line, source) ==
    IF Completed(line) THEN <<>>
    ELSE LET task_info == parse_task_details(line)
         IN  IF task_info = <<>> THEN <<>>
             ELSE <<[name |-> task_info[1].name, hours |-> task_info[1].hours,
                     urgency |-> task_info[1].urgency, due_date |-> task_info[1].due_date,
                     source |-> source]>>

\* lines 135-162: the loop of parse_tasks_from_doc; current_date is <<>> for
\* None and else holds the last header line
RECURSIVE ScanToday(_, _, _)
ScanToday(lines, current_date, found) ==
    IF lines = <<>> THEN found
    ELSE LET line == Head(lines)
         IN  IF IsDateHeader(line) THEN ScanToday(Tail(lines), <<line>>, found)
             ELSE IF HasToday(line) THEN ScanToday(Tail(lines), <<line>>, found)
             ELSE IF current_date # <<>> /\ HasToday(current_date[1]) /\ IsTaskLine(line)
                  THEN ScanToday(Tail(lines), current_date,
                                 found \o TaskRecords(line, "carryover"))
             ELSE ScanToday(Tail(lines), current_date, found)

\* lines 190-217: the loop of parse_still_on_list
RECURSIVE ScanStillOnList(_, _, _)
ScanStillOnList(lines, in_still_on_list, found) ==
    IF lines = <<>> THEN found
    ELSE LET line == Head(lines)
         IN  IF HasMarker(line) THEN ScanStillOnList(Tail(lines), TRUE, found)
             ELSE IF IsDateHeader(line) THEN ScanStillOnList(Tail(lines), FALSE, found)
             ELSE IF in_still_on_list /\ IsTaskLine(line)
                  THEN ScanStillOnList(Tail(lines), in_still_on_list,
                                       found \o TaskRecords(line, "still_on_list"))
             ELSE ScanStillOnList(Tail(lines), in_still_on_list, found)

\* lines 68-107: read_document returns "" when the Docs API fails
read_document == IF "docs_read" \in failures THEN <<>> ELSE doc

\* lines 122-169
parse_tasks_from_doc == ScanToday(read_document, <<>>, <<>>)

\* lines 181-224
parse_still_on_list == ScanStillOnList(read_document, FALSE, <<>>)

\* generate_complete_schedule line 226
ParseTasksFromDoc ==
    /\ pc = "parse_start"
    /\ carryover' = parse_tasks_from_doc
    /\ pc' = "parse_still"
    /\ UNCHANGED <<tasks_memory, still_on_list, all_tasks>>
    /\ UNCHANGED envVars
    /\ UNCHANGED schedVars
    /\ UNCHANGED secVars

\* generate_complete_schedule line 227
ParseStillOnList ==
    /\ pc = "parse_still"
    /\ still_on_list' = parse_still_on_list
    /\ pc' = "parsed"
    /\ UNCHANGED <<carryover, tasks_memory, all_tasks>>
    /\ UNCHANGED envVars
    /\ UNCHANGED schedVars
    /\ UNCHANGED secVars

\* the parser on a readable log
InitParse ==
    /\ doc \in Logs(MaxLines)
    /\ failures = {}
    /\ default_doc_id = <<>>
    /\ doc_appended = <<>>
    /\ result = <<>>
    /\ authenticated = {}
    /\ added = [u \in Users |-> <<>>]
    /\ chosen_doc = [u \in Users |-> <<>>]
    /\ carryover = <<>>
    /\ tasks_memory = <<>>
    /\ still_on_list = <<>>
    /\ all_tasks = <<>>
    /\ pc = "parse_start"
    /\ SchedIdle
    /\ SecIdle

NextParse == ParseTasksFromDoc \/ ParseStillOnList

SpecParse == InitParse /\ [][NextParse]_vars

----------------------------------------------------------------------------
(* Log parser properties *)

\* the task lines of the log that have a details block
DetailedLines == {k \in 1..Len(doc) : IsTaskLine(doc[k]) /\ doc[k].details # <<>>}

\* the records the parser returned
ParsedRecords ==
    {carryover[k] : k \in 1..Len(carryover)} \cup {still_on_list[k] : k \in 1..Len(still_on_list)}

\* the record carries the name, the hours and the due date of the task line
FromLine(r, line) ==
    /\ r.name = line.name
    /\ r.hours = (IF line.details[1].hours = <<>> THEN 100 ELSE line.details[1].hours[1])
    /\ r.due_date = line.details[1].due

\* C14: every record produced by the parser has an urgency of critical, high,
\* medium or low; a details block with the keyword urgent gives high, which is
\* scored with weight 7, and a details block without keyword gives medium.
C14_ParsedUrgency ==
    pc = "parsed" =>
        /\ \A r \in ParsedRecords : r.urgency \in Urgencies
        /\ \A r \in ParsedRecords : \A k \in DetailedLines :
              LET keywords == doc[k].details[1].keywords
              IN  FromLine(r, doc[k]) =>
                     /\ "urgent" \in keywords => r.urgency = "high" /\ UrgencyWeight(r.urgency) = 7
                     /\ keywords = {} => r.urgency = "medium"

\* the last date header above line k is today's
UnderToday(k) ==
    \E h \in 1..(k - 1) :
        /\ IsDateHeader(doc[h]) /\ doc[h].day = "today"
        /\ \A j \in (h + 1)..(k - 1) : ~IsDateHeader(doc[j])

\* the record of a task line with a details block
RecordOf(line, source) ==
    [name |-> line.name,
     hours |-> IF line.details[1].hours = <<>> THEN 100 ELSE line.details[1].hours[1],
     urgency |-> ParsedUrgency(line.details[1].keywords),
     due_date |-> line.details[1].due,
     source |-> source]

\* the open task lines with details of today's section, top to bottom
OpenTodayLines ==
    SelectSeq([k \in 1..Len(doc) |-> k],
              LAMBDA k : k \in DetailedLines /\ ~doc[k].glyph /\ UnderToday(k))

----------------------------------------------------------------------------
(* TaskSchedulerService.generate_complete_schedule *)

MaxGenLines == 2      \* lines per log explored for a complete run
MaxGenTasks == 2      \* session tasks explored for a complete run

\* the log lines of a complete run:  today's header, - A (2h, urgent), - C (0h, low)
GenLines ==
    {DateHeader("today"),
     TaskLine("A", FALSE, Details(<<200>>, {"urgent"}, <<>>)),
     TaskLine("C", FALSE, Details(<<0>>, {"low"}, <<>>))}

GenLogs(n) == UNION {[1..k -> GenLines] : k \in 0..n}

\* session tasks as add_task stores them after the validation of the server
GenSessionTasks ==
    {[name |-> "A", hours |-> 250, urgency |-> "high", due_date |-> <<>>, source |-> "add_task"],
     [name |-> "B", hours |-> 100, urgency |-> "low", due_date |-> <<1>>, source |-> "add_task"]}

GenSessionLists(n) == UNION {[1..k -> GenSessionTasks] : k \in 0..n}

\* the calendar of the target date: empty, or a meeting 09:00-10:00
GenCalendars == {<<>>, <<[start |-> 540, end |-> 600]>>}

\* the failures of the collaborators; a failing collaborator fails for the
\* whole run
Failures == SUBSET {"docs_read", "calendar", "calendar_uninitialized", "docs_write"}

\* lines 203-221: without doc id the run ends with the setup message
ResolveDocId ==
    /\ pc = "gen_start"
    /\ IF default_doc_id = <<>>
       THEN result' = <<"setup_required">> /\ pc' = "gen_end"
       ELSE result' = result /\ pc' = "parse_start"
    /\ UNCHANGED <<carryover, tasks_memory, still_on_list, all_tasks>>
    /\ UNCHANGED <<doc, failures, default_doc_id, doc_appended, authenticated, added, chosen_doc>>
    /\ UNCHANGED schedVars
    /\ UNCHANGED secVars

\* line 230 and get_events_for_date: RuntimeError when the service is not
\* initialized (caught at line 259), [] when the Calendar API fails
GetEventsForDate ==
    /\ pc = "parsed"
    /\ IF "calendar_uninitialized" \in failures
       THEN result' = <<"error">> /\ pc' = "gen_end" /\ events' = events
       ELSE /\ events' = (IF "calendar" \in failures THEN <<>> ELSE events)
            /\ result' = result
            /\ pc' = "comb_start"
    /\ UNCHANGED <<carryover, tasks_memory, still_on_list, all_tasks>>
    /\ UNCHANGED <<doc, failures, default_doc_id, doc_appended, authenticated, added, chosen_doc>>
    /\ UNCHANGED <<work_start_hour, work_end_hour, tasks, free_slots, available_minutes,
                   task_idx, scheduled, unscheduled, taken, schedule_text>>
    /\ UNCHANGED secVars

\* lines 252-257: the schedule is appended, the session list is emptied and
\* the summary is returned
AppendSchedule ==
    /\ pc = "formatted"
    /\ schedule_text # ValueError
    /\ "docs_write" \notin failures
    /\ doc_appended' = Append(doc_appended, schedule_text)
    /\ tasks_memory' = <<>>
    /\ result' = <<"created">>
    /\ pc' = "gen_end"
    /\ UNCHANGED <<carryover, still_on_list, all_tasks>>
    /\ UNCHANGED <<doc, failures, default_doc_id, authenticated, added, chosen_doc>>
    /\ UNCHANGED schedVars
    /\ UNCHANGED secVars

\* lines 259-261: the exception of _format_schedule or of append_schedule is
\* caught and returned as "Error: ..."
RunFails ==
    /\ pc = "formatted"
    /\ schedule_text = ValueError \/ "docs_write" \in failures
    /\ result' = <<"error">>
    /\ pc' = "gen_end"
    /\ UNCHANGED <<carryover, tasks_memory, still_on_list, all_tasks>>
    /\ UNCHANGED <<doc, failures, default_doc_id, doc_appended, authenticated, added, chosen_doc>>
    /\ UNCHANGED schedVars
    /\ UNCHANGED secVars

InitGen ==
    /\ doc \in GenLogs(MaxGenLines)
    /\ tasks_memory \in GenSessionLists(MaxGenTasks)
    /\ failures \in Failures
    /\ default_doc_id \in {<<>>, <<"doc1">>}
    /\ events \in GenCalendars
    /\ work_start_hour = 9
    /\ work_end_hour \in {10, 15}
    /\ doc_appended = <<>>
    /\ result = <<>>
    /\ authenticated = {}
    /\ added = [u \in Users |-> <<>>]
    /\ chosen_doc = [u \in Users |-> <<>>]
    /\ carryover = <<>>
    /\ still_on_list = <<>>
    /\ all_tasks = <<>>
    /\ tasks = <<>>
    /\ free_slots = <<>>
    /\ available_minutes = <<>>
    /\ task_idx = 0
    /\ scheduled = <<>>
    /\ unscheduled = <<>>
    /\ taken = <<>>
    /\ schedule_text = <<>>
    /\ pc = "gen_start"
    /\ SecIdle

NextGen ==
    \/ ResolveDocId
    \/ ParseTasksFromDoc
    \/ ParseStillOnList
    \/ GetEventsForDate
    \/ CombineAllTasks
    \/ PrioritizeTasks
    \/ StartScheduling
    \/ FitTask
    \/ DeferTask
    \/ ReturnSchedule
    \/ FormatSchedule
    \/ AppendSchedule
    \/ RunFails

SpecGen == InitGen /\ [][NextGen]_vars

----------------------------------------------------------------------------
(* Properties of a complete run *)

\* the fields of the tasks as add_task stored them
Core(list) ==
    [k \in 1..Len(list) |->
        [name |-> list[k].name, hours |-> list[k].hours, urgency |-> list[k].urgency,
         due_date |-> list[k].due_date, source |-> list[k].source]]

\* C15: the session task list is cleared only at the end of a run in which the
\* plan was written to the log; in a run with a failure in parsing, calendar
\* read, scheduling, formatting or the write it keeps all its tasks, in order.
C15_Step ==
    Core(tasks_memory') # Core(tasks_memory) =>
        /\ failures = {}
        /\ schedule_text # ValueError
        /\ doc_appended' = Append(doc_appended, schedule_text)
        /\ result' = <<"created">>

C15_ClearedOnlyAfterWrite == [][C15_Step]_vars

\* C18: every task handed to the scheduler has hours > 0 and a non-empty name
\* of at most 500 characters.
C18_TaskInvariant ==
    pc = "sched" =>
        \A k \in 1..Len(tasks) :
            /\ tasks[k].hours > 0
            /\ tasks[k].name # ""
            /\ Len(tasks[k].name) <= 500

\* the run is past the read of the log
PastLogRead == pc \in {"parse_still", "parsed", "comb_start", "combined", "prioritized",
                       "sched", "done", "formatted"}

\* the run is past the read of the calendar
PastCalendarRead == pc \in {"comb_start", "combined", "prioritized", "sched", "done",
                            "formatted"}

\* C19: when the log cannot be read, the calendar read fails or the append
\* fails, the run ends with an error result and without a plan written; it
\* never goes on with an empty task list or event list in place of the failed
\* read.
C19_FailureSurfaced ==
    /\ "docs_read" \in failures => ~PastLogRead
    /\ failures \cap {"calendar", "calendar_uninitialized"} # {} => ~PastCalendarRead
    /\ (pc = "gen_end" /\ default_doc_id # <<>> /\ failures # {}) =>
          result = <<"error">> /\ doc_appended = <<>>

----------------------------------------------------------------------------
(* The tools of the server: add_task, set_default_doc_id, get_default_doc_id *)

MaxSessionTasks == 2  \* length the session task list is explored up to

\* Texts whose characters matter (due dates, doc ids) are sequences of
\* one-character strings.
DigitValue ==
    [c \in {"0", "1", "2", "3", "4", "5", "6", "7", "8", "9"} |->
        CASE c = "0" -> 0 [] c = "1" -> 1 [] c = "2" -> 2 [] c = "3" -> 3 [] c = "4" -> 4
          [] c = "5" -> 5 [] c = "6" -> 6 [] c = "7" -> 7 [] c = "8" -> 8 [] c = "9" -> 9]

IsDigits(s) == \A k \in 1..Len(s) : s[k] \in DOMAIN DigitValue

\* the number a digit string denotes
RECURSIVE Number(_)
Number(s) ==
    IF s = <<>> THEN 0 ELSE 10 * Number(SubSeq(s, 1, Len(s) - 1)) + DigitValue[s[Len(s)]]

\* the pieces of s between the occurrences of sep
RECURSIVE Split(_, _)
Split(s, sep) ==
    IF \A k \in 1..Len(s) : s[k] # sep THEN <<s>>
    ELSE LET k == CHOOSE i \in 1..Len(s) : s[i] = sep /\ \A j \in 1..(i - 1) : s[j] # sep
         IN  <<SubSeq(s, 1, k - 1)>> \o Split(SubSeq(s, k + 1, Len(s)), sep)

DaysInMonth(year, month) ==
    IF month = 2
    THEN (IF year % 4 = 0 /\ (year % 100 # 0 \/ year % 400 = 0) THEN 29 ELSE 28)
    ELSE IF month \in {4, 6, 9, 11} THEN 30 ELSE 31

\* line 284: datetime.strptime(due_date, "%Y-%m-%d") does not raise.  %Y takes
\* four digits, %m and %d take one or two digits (the leading zero is
\* optional), and the date must exist.
strptime_Ymd(s) ==
    LET f == Split(s, "-")
    IN  /\ Len(f) = 3
        /\ IsDigits(f[1]) /\ IsDigits(f[2]) /\ IsDigits(f[3])
        /\ Len(f[1]) = 4 /\ Number(f[1]) >= 1
        /\ Len(f[2]) \in {1, 2} /\ Number(f[2]) \in 1..12
        /\ Len(f[3]) \in {1, 2} /\ Number(f[3]) \in 1..DaysInMonth(Number(f[1]), Number(f[2]))

\* due dates of the requests: None, "", 2026-11-06, 2026-11-6, 11/06/2026,
\* 2026-02-30
NoDate == <<"None">>
EmptyDate == <<>>
PaddedDate == <<"2", "0", "2", "6", "-", "1", "1", "-", "0", "6">>
UnpaddedDate == <<"2", "0", "2", "6", "-", "1", "1", "-", "6">>
SlashDate == <<"1", "1", "/", "0", "6", "/", "2", "0", "2", "6">>
NoSuchDate == <<"2", "0", "2", "6", "-", "0", "2", "-", "3", "0">>

\* line 269: task_name.strip() of the names explored
Stripped(task_name) == IF task_name \in {" ", "   "} THEN "" ELSE task_name

Request(task_name, hours, urgency, due_date) ==
    [task_name |-> task_name, hours |-> hours, urgency |-> urgency, due_date |-> due_date]

\* the add_task requests explored: four that pass the validation of the
\* server and one or two for each way of failing it
AddRequests ==
    {Request("A", 100, "high", NoDate),
     Request("B", 2400, "low", PaddedDate),
     Request(Name500, 1, "critical", EmptyDate),
     Request("C", 50, "medium", UnpaddedDate),
     Request("", 100, "high", NoDate),
     Request("   ", 100, "high", NoDate),
     Request(LongName, 100, "high", NoDate),
     Request("A", 0, "high", NoDate),
     Request("A", -100, "high", NoDate),
     Request("A", 2401, "high", NoDate),
     Request("A", 100, "urgent", NoDate),
     Request("A", 100, "high", SlashDate),
     Request("A", 100, "high", NoSuchDate)}

\* lines 268-286 of the server: the error message, <<>> if the request passes
ValidationError(rq) ==
    IF rq.task_name = "" \/ Len(Stripped(rq.task_name)) = 0 THEN <<"name_empty">>
    ELSE IF Len(rq.task_name) > 500 THEN <<"name_too_long">>
    ELSE IF rq.hours <= 0 \/ rq.hours > 2400 THEN <<"hours">>
    ELSE IF rq.urgency \notin {"critical", "high", "medium", "low"} THEN <<"urgency">>
    ELSE IF rq.due_date \notin {NoDate, EmptyDate} /\ ~strptime_Ymd(rq.due_date)
         THEN <<"due_date">>
    ELSE <<>>

\* lines 75-81 of the service: the record stored; due_date is kept as given
StoredTask(rq) ==
    [name |-> rq.task_name, hours |-> rq.hours, urgency |-> rq.urgency,
     due_date |-> rq.due_date, source |-> "add_task"]

\* the tool add_task: validation, then authentication, then service.add_task
\* the variant that takes every user for authenticated
is_user_authenticated_Anyone(user_id) == TRUE

\* OAuthService.is_user_authenticated, as require_authentication calls it
is_user_authenticated(user_id) == user_id \in authenticated

AddTask ==
    /\ pc = "serving"
    /\ Len(tasks_memory) < MaxSessionTasks
    /\ \E u \in Users, rq \in AddRequests :
          IF ValidationError(rq) # <<>>
          THEN /\ result' = [op |-> "add_task", user |-> u, request |-> rq,
                             status |-> "error", detail |-> ValidationError(rq)]
               /\ UNCHANGED <<tasks_memory, added>>
          ELSE IF ~is_user_authenticated(u)
          THEN /\ result' = [op |-> "add_task", user |-> u, request |-> rq,
                             status |-> "error", detail |-> <<"not_authenticated">>]
               /\ UNCHANGED <<tasks_memory, added>>
          ELSE /\ tasks_memory' = Append(tasks_memory, StoredTask(rq))
               /\ added' = [added EXCEPT ![u] = Append(added[u], StoredTask(rq))]
               /\ result' = [op |-> "add_task", user |-> u, request |-> rq,
                             status |-> "added", detail |-> <<>>]
    /\ UNCHANGED <<carryover, still_on_list, all_tasks>>
    /\ UNCHANGED <<doc, failures, default_doc_id, doc_appended, authenticated, chosen_doc>>
    /\ UNCHANGED <<pc, schedVars>>
    /\ UNCHANGED secVars

\* doc ids of the requests; the last two fail validate_doc_id (empty, blank inside)
DocIds == {"doc1", "doc2", "", "doc 3"}

\* lines 65-88: validate_doc_id does not raise
ValidDocId(doc_id) == doc_id \in {"doc1", "doc2"}

\* the tool set_default_doc_id: validation, then authentication, then
\* service.set_default_doc_id
SetDefaultDocId ==
    /\ pc = "serving"
    /\ \E u \in Users, doc_id \in DocIds :
          IF ~ValidDocId(doc_id)
          THEN /\ result' = [op |-> "set_default_doc_id", user |-> u, status |-> "error",
                             detail |-> <<"doc_id">>]
               /\ UNCHANGED <<default_doc_id, chosen_doc>>
          ELSE IF ~is_user_authenticated(u)
          THEN /\ result' = [op |-> "set_default_doc_id", user |-> u, status |-> "error",
                             detail |-> <<"not_authenticated">>]
               /\ UNCHANGED <<default_doc_id, chosen_doc>>
          ELSE /\ default_doc_id' = <<doc_id>>
               /\ chosen_doc' = [chosen_doc EXCEPT ![u] = <<doc_id>>]
               /\ result' = [op |-> "set_default_doc_id", user |-> u, status |-> "set",
                             detail |-> <<doc_id>>]
    /\ UNCHANGED <<carryover, tasks_memory, still_on_list, all_tasks>>
    /\ UNCHANGED <<doc, failures, doc_appended, authenticated, added>>
    /\ UNCHANGED <<pc, schedVars>>
    /\ UNCHANGED secVars

\* the tool get_default_doc_id: no authentication, the id of the one service
GetDefaultDocId ==
    /\ pc = "serving"
    /\ \E u \in Users :
          result' = [op |-> "get_default_doc_id", user |-> u, status |-> "ok",
                     detail |-> default_doc_id]
    /\ UNCHANGED <<carryover, tasks_memory, still_on_list, all_tasks>>
    /\ UNCHANGED <<doc, failures, default_doc_id, doc_appended, authenticated, added,
                   chosen_doc>>
    /\ UNCHANGED <<pc, schedVars>>
    /\ UNCHANGED secVars

\* app_lifespan lines 179-183: one TaskSchedulerService with an empty session
\* list and no doc id serves all users
InitUsers ==
    /\ authenticated \in SUBSET Users
    /\ tasks_memory = <<>>
    /\ default_doc_id = <<>>
    /\ added = [u \in Users |-> <<>>]
    /\ chosen_doc = [u \in Users |-> <<>>]
    /\ result = <<>>
    /\ doc = <<>>
    /\ failures = {}
    /\ doc_appended = <<>>
    /\ carryover = <<>>
    /\ still_on_list = <<>>
    /\ all_tasks = <<>>
    /\ pc = "serving"
    /\ SchedIdle
    /\ SecIdle


----------------------------------------------------------------------------
(* Properties of the tools *)

\* the session list and the doc id a user's tools and plan generation work on:
\* those of the one service of the process
TasksOf(u) == tasks_memory

DocIdOf(u) == default_doc_id

\* C16: the session task list and the default doc id are per user: what an
\* authenticated user observes, schedules or clears is what that user's own
\* operations produced, whatever the other user does in between.
C16_PerUserIsolation ==
    \A u \in authenticated :
        /\ TasksOf(u) = added[u]
        /\ DocIdOf(u) = chosen_doc[u]
        /\ (result # <<>> /\ result.op = "get_default_doc_id" /\ result.user = u)
              => result.detail = chosen_doc[u]

\* the due date is written as four digits, two digits, two digits
IsYYYYMMDD(s) ==
    /\ Len(s) = 10
    /\ s[5] = "-" /\ s[8] = "-"
    /\ \A k \in (1..10) \ {5, 8} : s[k] \in DOMAIN DigitValue

\* a request the data model does not admit
C17_Invalid(rq) ==
    \/ rq.task_name \in {"", " ", "   "}
    \/ Len(rq.task_name) > 500
    \/ rq.hours <= 0
    \/ rq.hours > 2400
    \/ rq.urgency \notin Urgencies
    \/ rq.due_date \notin {NoDate, EmptyDate} /\ ~IsYYYYMMDD(rq.due_date)

C17_Step ==
    (result' # <<>> /\ result'.op = "add_task") =>
        LET rq == result'.request
        IN  /\ C17_Invalid(rq) => result'.status = "error" /\ tasks_memory' = tasks_memory
            /\ (result'.status = "added") =>
                  /\ result'.user \in authenticated
                  /\ tasks_memory' = Append(tasks_memory, StoredTask(rq))
            /\ (ValidationError(rq) = <<>> /\ result'.user \in authenticated) =>
                  result'.status = "added"

\* C17: an add_task request with an empty or blank name, a name of more than
\* 500 characters, hours <= 0 or > 24, an unknown urgency or a due date not
\* written YYYY-MM-DD is answered with an error and leaves the session list
\* unchanged; a request passing validation and authentication appends exactly
\* one task at the end of the list.
C17_AddTaskValidation == [][C17_Step]_vars

----------------------------------------------------------------------------
(* Section scanning of the log parser *)

\* the marker phrases explored, lower-cased
LowerCase(phrase) ==
    IF phrase \in {"Still on list", "STILL ON LIST", "still on list"} THEN "still on list"
    ELSE phrase

\* the line holds the marker phrase in some letter case
HasMarkerAnyCase(line) == line.text = "marker" /\ LowerCase(line.phrase) = "still on list"

\* line k lies between a marker line and the next date header
UnderMarker(k) ==
    \E h \in 1..(k - 1) :
        /\ HasMarkerAnyCase(doc[h])
        /\ \A j \in (h + 1)..(k - 1) : ~IsDateHeader(doc[j])

\* the open task lines with details of the still-on-list sections, top to bottom
OpenMarkerLines ==
    SelectSeq([k \in 1..Len(doc) |-> k],
              LAMBDA k : k \in DetailedLines /\ ~doc[k].glyph /\ UnderMarker(k))

\* C21: a date header closes both kinds of section; carryover tasks are exactly
\* the task lines between today's header and the next header; a line holding
\* 'still on list' in any letter case opens a still-on-list section, and the
\* still-on-list tasks are exactly the task lines between such a marker and
\* the next header.
C21_SectionScan ==
    pc = "parsed" =>
        /\ carryover = [j \in 1..Len(OpenTodayLines) |->
                           RecordOf(doc[OpenTodayLines[j]], "carryover")]
        /\ still_on_list = [j \in 1..Len(OpenMarkerLines) |->
                               RecordOf(doc[OpenMarkerLines[j]], "still_on_list")]

----------------------------------------------------------------------------
(* Formatter properties *)

\* the rendered blocks (task occurrences and meetings), top to bottom
BlockLines ==
    IF schedule_text = ValueError THEN <<>>
    ELSE SelectSeq(schedule_text, LAMBDA l : l.kind \in {"task", "meeting"})

\* C22: task occurrences and meetings are rendered as one list sorted by start
\* time: every occurrence and every meeting has its block, and of two blocks
\* the one with the earlier start is on the earlier line.
C22_BlocksSortedByStart ==
    pc = "formatted" =>
        /\ Len(BlockLines) = Len(scheduled) + Len(events)
        /\ \A k, l \in 1..Len(BlockLines) :
              BlockLines[k].start < BlockLines[l].start => k < l

\* position of the still-on-list header in the text, 0 if there is none
StillHeaderAt ==
    IF \E k \in 1..Len(schedule_text) : schedule_text[k].kind = "still_header"
    THEN CHOOSE k \in 1..Len(schedule_text) : schedule_text[k].kind = "still_header"
    ELSE 0

\* C23: a formatted plan ends with the separator line; it holds the
\* still-on-list header followed by one line per unscheduled task when there
\* are unscheduled tasks, and the line '- None (all tasks complete!)' when
\* there are none, the case of zero tasks included.
C23_StillOnListSection ==
    (pc = "formatted" /\ schedule_text # ValueError) =>
        /\ schedule_text[Len(schedule_text)].kind = "separator"
        /\ unscheduled # <<>> =>
              /\ StillHeaderAt # 0
              /\ \A j \in 1..Len(unscheduled) :
                    /\ StillHeaderAt + j <= Len(schedule_text)
                    /\ schedule_text[StillHeaderAt + j].kind = "still"
                    /\ schedule_text[StillHeaderAt + j].name = unscheduled[j].name
              /\ Len(StillOnListOutput) = Len(unscheduled)
        /\ unscheduled = <<>> =>
              \E k \in 1..Len(schedule_text) : schedule_text[k].kind = "none"

----------------------------------------------------------------------------
(* Properties of the schedule returned by _schedule_tasks *)

\* the n-th occurrence of the schedule, in minutes: start_time and end_time
\* are hours of the day
Occurrence(n) == [start |-> scheduled[n].start_time * 60, end |-> scheduled[n].end_time * 60]

\* two intervals [start, end) share a minute
Overlap(a, b) == a.start < b.end /\ b.start < a.end

\* C24: in a schedule produced no two task occurrences overlap, no task
\* occurrence overlaps a calendar event, and every task occurrence lies inside
\* one of the free slots computed for the work window.
C24_OccurrencesDisjointAndFree ==
    Finished =>
        /\ \A k, l \in 1..Len(scheduled) : k # l => ~Overlap(Occurrence(k), Occurrence(l))
        /\ \A k \in 1..Len(scheduled) : \A e \in 1..Len(events) :
              ~Overlap(Occurrence(k), events[e])
        /\ \A k \in 1..Len(scheduled) : \E j \in 1..Len(free_slots) :
              /\ free_slots[j].start <= Occurrence(k).start
              /\ Occurrence(k).end <= free_slots[j].end

----------------------------------------------------------------------------
(* SecurityService.check_rate_limit: the per-user, per-type rate limiter.  *)
(* Times are whole seconds; several requests may arrive in one second.     *)

MaxChecks == 3        \* check_rate_limit calls explored after the initial bursts
MaxClock == 120       \* the clock stops here

\* SecurityService.rate_limits
rate_limits ==
    [read    |-> [max_requests |-> 100, window_seconds |-> 60],
     write   |-> [max_requests |-> 20,  window_seconds |-> 60],
     general |-> [max_requests |-> 200, window_seconds |-> 60]]

\* the operation types callers pass; "delete" is not a configured type
OperationTypes == {"read", "write", "general", "delete"}

\* if operation_type not in self.rate_limits: operation_type = 'general'
LimitedType(operation_type) ==
    IF operation_type \in DOMAIN rate_limits THEN operation_type ELSE "general"

\* key = f"{user_id}:{operation_type}"; neither part holds a colon, so the pair is the key
RateKey(user_id, operation_type) == <<user_id, LimitedType(operation_type)>>

RateKeys == {RateKey(u, t) : u \in Users, t \in OperationTypes}

\* store[key] of a defaultdict(list)
Timestamps(store, key) == IF key \in DOMAIN store THEN store[key] ELSE <<>>

\* the variant that keeps a timestamp for one second too long
StillInWindow_Inclusive(timestamps, t, window_seconds) ==
    SelectSeq(timestamps, LAMBDA timestamp : t - timestamp <= window_seconds)

\* [timestamp for timestamp in store[key] if now - timestamp < window_seconds]
StillInWindow(timestamps, t, window_seconds) ==
    SelectSeq(timestamps, LAMBDA timestamp : t - timestamp < window_seconds)

\* store with store[key] = timestamps
WithTimestamps(store, key, timestamps) ==
    IF key \in DOMAIN store
    THEN [store EXCEPT ![key] = timestamps]
    ELSE [k \in DOMAIN store \cup {key} |-> IF k = key THEN timestamps ELSE store[k]]

\* check_rate_limit at time t: the answer and the store it leaves
check_rate_limit(store, user_id, operation_type, t) ==
    LET limit_config == rate_limits[LimitedType(operation_type)]
        key == RateKey(user_id, operation_type)
        kept == StillInWindow(Timestamps(store, key), t, limit_config.window_seconds)
    IN  IF Len(kept) >= limit_config.max_requests
        THEN [allowed |-> FALSE, store |-> WithTimestamps(store, key, kept)]
        ELSE [allowed |-> TRUE,  store |-> WithTimestamps(store, key, Append(kept, t))]

\* the store after n calls for one key within second t; the first test has the
\* store evaluated before the next calls are made
RECURSIVE Burst(_, _, _, _)
Burst(store, key, t, n) ==
    IF n = 0 \/ key \notin RateKeys \/ DOMAIN store \notin SUBSET RateKeys THEN store
    ELSE IF n = 1 THEN check_rate_limit(store, key[1], key[2], t).store
    ELSE Burst(Burst(store, key, t, n \div 2), key, t, n - (n \div 2))

\* the store after a burst that stops one short of the limit, for each key of K
RECURSIVE Bursts(_, _)
Bursts(store, K) ==
    IF K = {} THEN store
    ELSE LET key == CHOOSE k \in K : TRUE
         IN  Bursts(Burst(store, key, 0, rate_limits[key[2]].max_requests - 1), K \ {key})

\* the sets of keys that start with a burst: none, one key, or all keys
BurstSets == {{}} \cup {{key} : key \in RateKeys} \cup {RateKeys}

\* the clock moves on by one second less than the window, or by the window
Delays == {59, 60}

\* one call of check_rate_limit
CheckRateLimit ==
    /\ pc = "limiting"
    /\ checks < MaxChecks
    /\ \E user_id \in Users, operation_type \in OperationTypes :
          LET answer == check_rate_limit(rate_limit_store, user_id, operation_type, now)
              key == RateKey(user_id, operation_type)
          IN  /\ rate_limit_store' = answer.store
              /\ result' = [allowed |-> answer.allowed, user_id |-> user_id,
                            operation_type |-> operation_type, at |-> now]
              /\ allowed_log' =
                    IF answer.allowed
                    THEN WithTimestamps(allowed_log, key,
                                        Append(Timestamps(allowed_log, key), now))
                    ELSE allowed_log
    /\ checks' = checks + 1
    /\ UNCHANGED <<pc, schedVars, carryover, tasks_memory, still_on_list, all_tasks>>
    /\ UNCHANGED <<doc, failures, default_doc_id, doc_appended, authenticated, added,
                   chosen_doc>>
    /\ UNCHANGED <<now, raw_user_id, active_flows, token_files, issued>>

\* time.time() moves on
ClockAdvances ==
    /\ pc = "limiting"
    /\ \E d \in Delays : /\ now + d <= MaxClock
                         /\ now' = now + d
    /\ UNCHANGED <<pc, schedVars, carryover, tasks_memory, still_on_list, all_tasks, envVars>>
    /\ UNCHANGED <<rate_limit_store, allowed_log, checks, raw_user_id, active_flows,
                   token_files, issued>>

InitRate ==
    /\ \E K \in BurstSets : rate_limit_store = Bursts(<<>>, K)
    /\ allowed_log = rate_limit_store
    /\ now = 0
    /\ checks = 0
    /\ raw_user_id = <<>>
    /\ active_flows = <<>>
    /\ token_files = <<>>
    /\ issued = <<>>
    /\ pc = "limiting"
    /\ EnvIdle
    /\ carryover = <<>>
    /\ tasks_memory = <<>>
    /\ still_on_list = <<>>
    /\ all_tasks = <<>>
    /\ SchedIdle

NextRate == CheckRateLimit \/ ClockAdvances

SpecRate == InitRate /\ [][NextRate]_vars

\* the allowed requests of a key in the window_seconds before time t
AllowedBefore(key, t) ==
    {i \in DOMAIN Timestamps(allowed_log, key) :
        t - allowed_log[key][i] < rate_limits[key[2]].window_seconds}

\* the allowed requests of a key in the window that opens at time w
AllowedInWindow(key, w) ==
    {i \in DOMAIN Timestamps(allowed_log, key) :
        /\ w <= allowed_log[key][i]
        /\ allowed_log[key][i] < w + rate_limits[key[2]].window_seconds}

\* no window of a key holds more than max_requests allowed requests
C25_Window ==
    \A key \in DOMAIN allowed_log :
        \A w \in {allowed_log[key][i] : i \in DOMAIN allowed_log[key]} :
            Cardinality(AllowedInWindow(key, w)) <= rate_limits[key[2]].max_requests

\* a call is allowed exactly when the key has room, a rejected call leaves no
\* timestamp, and no other key's timestamps change
C25_Step ==
    checks' = checks + 1 =>
        LET key == RateKey(result'.user_id, result'.operation_type)
        IN  /\ result'.allowed <=>
                  Cardinality(AllowedBefore(key, now)) < rate_limits[key[2]].max_requests
            /\ ~result'.allowed =>
                  Len(rate_limit_store'[key]) <= Len(Timestamps(rate_limit_store, key))
            /\ \A other \in DOMAIN rate_limit_store \ {key} :
                  rate_limit_store'[other] = rate_limit_store[other]

\* C25: for each user and operation type independently, check_rate_limit allows
\* at most max_requests requests (read 100, write 20, general 200) in any
\* 60-second window; a request is allowed exactly when fewer than max_requests
\* allowed requests of that user and type lie in the preceding 60 seconds; a
\* rejected request is not recorded; requests of one user or type never reduce
\* another's quota.
C25_RateLimit == []C25_Window /\ [][C25_Step]_vars

\* a key has been allowed more than max_requests requests in all: it reached its
\* limit, the window passed, and the last request was allowed again
C25_AllowedAgain ==
    /\ pc = "limiting"
    /\ checks > 1
    /\ result.allowed
    /\ LET key == RateKey(result.user_id, result.operation_type)
       IN  Len(allowed_log[key]) > rate_limits[key[2]].max_requests

----------------------------------------------------------------------------
(* sanitize_user_id: the user id sanitiser of the server.  A user id is a  *)
(* sequence of characters.                                                 *)

MaxIdLen == 3         \* length of the short user ids explored

\* characters of the class [a-zA-Z0-9._-] that are explored
IdChars == {"a", "7", ".", "_", "-"}

\* every character explored: the class, the separators, a newline, a blank
RawChars == IdChars \cup {"/", "\\", "\n", " "}

\* a user id of n times the character c
Repeated(c, n) == [i \in 1..n |-> c]

\* the long user ids explored: at the length limit, above it, and above it
\* only before the separators are removed
LongIds == {Repeated("a", 100), Repeated("a", 101), Append(Repeated("a", 100), "/"),
            Append(Repeated("a", 99), ".") \o <<"/", ".">>}

\* the characters of s at the places of Kept, in order
Kept(s, places) ==
    [n \in 1..Cardinality(places) |->
        s[CHOOSE i \in places : Cardinality({j \in places : j < i}) = n - 1]]

\* the number of dots in a row that end right before place i
DotsBefore(s, i) == Cardinality({j \in 1..(i - 1) : \A k \in j..(i - 1) : s[k] = "."})

\* s.replace('..', ''): the scan from the left removes the dots of a row in
\* pairs, so that of a row of dots only the last one stays, and only when the
\* row has an odd length
RemovedDotDot(s) ==
    Kept(s, {i \in DOMAIN s :
                ~(/\ s[i] = "."
                  /\ \/ DotsBefore(s, i) % 2 = 1
                     \/ i < Len(s) /\ s[i + 1] = ".")})

\* s.replace(c, '') for one character c
RemovedChar(s, c) == SelectSeq(s, LAMBDA x : x # c)

\* re.match(r'^[a-zA-Z0-9._-]+$', s): $ also matches before a newline that ends s
MatchesIdPattern(s) ==
    LET InClass(t) == t # <<>> /\ \A i \in DOMAIN t : t[i] \in IdChars
    IN  \/ InClass(s)
        \/ Len(s) > 1 /\ s[Len(s)] = "\n" /\ InClass(SubSeq(s, 1, Len(s) - 1))

\* sanitize_user_id: the string returned, or the error raised
sanitize_user_id(user_id) ==
    IF user_id = <<>>
    THEN [raises |-> "ValueError", value |-> <<>>]
    ELSE LET cleaned == RemovedChar(RemovedChar(RemovedDotDot(user_id), "/"), "\\")
         IN  IF ~MatchesIdPattern(cleaned) THEN [raises |-> "ValueError", value |-> <<>>]
             ELSE IF Len(cleaned) > 100 THEN [raises |-> "ValueError", value |-> <<>>]
             ELSE [raises |-> "", value |-> cleaned]

\* one call of sanitize_user_id
SanitizeUserId ==
    /\ pc = "sanitize_start"
    /\ result' = sanitize_user_id(raw_user_id)
    /\ pc' = "sanitized"
    /\ UNCHANGED <<schedVars, carryover, tasks_memory, still_on_list, all_tasks>>
    /\ UNCHANGED <<doc, failures, default_doc_id, doc_appended, authenticated, added,
                   chosen_doc>>
    /\ UNCHANGED secVars

InitSanitize ==
    /\ \/ \E n \in 0..MaxIdLen : raw_user_id \in [1..n -> RawChars]
       \/ raw_user_id \in LongIds
    /\ now = 0
    /\ rate_limit_store = <<>>
    /\ allowed_log = <<>>
    /\ checks = 0
    /\ active_flows = <<>>
    /\ token_files = <<>>
    /\ issued = <<>>
    /\ pc = "sanitize_start"
    /\ EnvIdle
    /\ carryover = <<>>
    /\ tasks_memory = <<>>
    /\ still_on_list = <<>>
    /\ all_tasks = <<>>
    /\ SchedIdle

NextSanitize == SanitizeUserId

SpecSanitize == InitSanitize /\ [][NextSanitize]_vars

\* s holds the characters of old in a row
Contains(s, old) ==
    \E i \in 1..(Len(s) - Len(old) + 1) : SubSeq(s, i, i + Len(old) - 1) = old

\* C27: for every input string, sanitize_user_id either raises or returns a
\* non-empty string of at most 100 characters, all from [a-zA-Z0-9._-], that
\* contains no "..", no "/" and no "\".
C27_SanitizedIsSafe ==
    (pc = "sanitized" /\ result.raises = "") =>
        /\ result.value # <<>>
        /\ Len(result.value) <= 100
        /\ \A i \in DOMAIN result.value : result.value[i] \in IdChars
        /\ ~Contains(result.value, <<".", ".">>)
        /\ ~Contains(result.value, <<"/">>)
        /\ ~Contains(result.value, <<"\\">>)

----------------------------------------------------------------------------
(* The server tools clear_tasks_memory and write_schedule_to_doc.  The     *)
(* methods they call on the services, clear_tasks_memory and write_to_doc, *)
(* are not defined by TaskSchedulerService and GoogleDocsService: the call *)
(* raises AttributeError.                                                  *)

MaxWrites == 2        \* write_schedule_to_doc calls that reach the rate limiter

\* the tools that change the session list, the default doc id or the document
StateChangingTools ==
    {"add_task", "set_default_doc_id", "clear_tasks_memory", "write_schedule_to_doc"}

\* the content of the write requests: its length, and whether a pattern of
\* suspicious_write_patterns or injection_patterns matches it
Contents ==
    {[length |-> 0, suspicious |-> TRUE],
     [length |-> 40, suspicious |-> FALSE],
     [length |-> 40, suspicious |-> TRUE],
     [length |-> 50001, suspicious |-> FALSE]}

\* validate_write_content returns (True, None)
ValidWriteContent(content) == content.length > 0 /\ ~content.suspicious

\* the tool clear_tasks_memory: authentication, then service.clear_tasks_memory()
ClearTasksMemory ==
    /\ pc = "serving"
    /\ \E u \in Users :
          IF ~is_user_authenticated(u)
          THEN result' = [op |-> "clear_tasks_memory", user |-> u, status |-> "error",
                          detail |-> <<"not_authenticated">>]
          ELSE result' = [op |-> "clear_tasks_memory", user |-> u, status |-> "error",
                          detail |-> <<"AttributeError">>]
    /\ UNCHANGED <<carryover, tasks_memory, still_on_list, all_tasks>>
    /\ UNCHANGED <<doc, failures, default_doc_id, doc_appended, authenticated, added,
                   chosen_doc>>
    /\ UNCHANGED <<pc, schedVars>>
    /\ UNCHANGED secVars

\* the tool write_schedule_to_doc: doc id validation, authentication, rate
\* limiting, content checks, then service.write_to_doc(doc_id, content, user_id)
WriteScheduleToDoc ==
    /\ pc = "serving"
    /\ \E u \in Users, doc_id \in DocIds, content \in Contents :
          LET answer == check_rate_limit(rate_limit_store, u, "write", now)
              Returns(status, detail) ==
                  result' = [op |-> "write_schedule_to_doc", user |-> u,
                             status |-> status, detail |-> detail]
          IN  IF ~ValidDocId(doc_id)
              THEN /\ Returns("error", <<"doc_id">>)
                   /\ UNCHANGED <<rate_limit_store, checks>>
              ELSE IF ~is_user_authenticated(u)
              THEN /\ Returns("error", <<"not_authenticated">>)
                   /\ UNCHANGED <<rate_limit_store, checks>>
              ELSE /\ checks < MaxWrites
                   /\ rate_limit_store' = answer.store
                   /\ checks' = checks + 1
                   /\ IF ~answer.allowed THEN Returns("error", <<"rate_limit">>)
                      ELSE IF content.length > 50000
                      THEN Returns("error", <<"content_too_large">>)
                      ELSE IF ~ValidWriteContent(content)
                      THEN Returns("error", <<"content">>)
                      ELSE Returns("error", <<"AttributeError">>)
    /\ UNCHANGED <<carryover, tasks_memory, still_on_list, all_tasks>>
    /\ UNCHANGED <<doc, failures, default_doc_id, doc_appended, authenticated, added,
                   chosen_doc>>
    /\ UNCHANGED <<pc, schedVars>>
    /\ UNCHANGED <<now, allowed_log, raw_user_id, active_flows, token_files, issued>>

NextUsers ==
    \/ AddTask
    \/ SetDefaultDocId
    \/ GetDefaultDocId
    \/ ClearTasksMemory
    \/ WriteScheduleToDoc

SpecUsers == InitUsers /\ [][NextUsers]_vars

\* the server with at most one authenticated user: u2 never is
InitAuth ==
    /\ InitUsers
    /\ authenticated \subseteq {"u1"}

SpecAuth == InitAuth /\ [][NextUsers]_vars

\* a state-changing tool answered a user who is not authenticated with an error
\* and left the session list, the default doc id and the document as they were
C26_Step ==
    (/\ result'.op \in StateChangingTools
     /\ result'.user \notin authenticated) =>
        /\ result'.status = "error"
        /\ tasks_memory' = tasks_memory
        /\ default_doc_id' = default_doc_id
        /\ doc' = doc
        /\ doc_appended' = doc_appended

\* C26: a state-changing tool call (add_task, set_default_doc_id,
\* clear_tasks_memory, write_schedule_to_doc) by a user who is not authenticated
\* returns an error and leaves the session list, the default doc id and the
\* document unchanged.
C26_UnauthenticatedChangesNothing == [][C26_Step]_vars

\* a user who is not authenticated was refused the clearing of a session list
\* that holds a task, while a default doc id is set
C26_Refused ==
    /\ pc = "serving"
    /\ result # <<>>
    /\ result.op = "clear_tasks_memory"
    /\ result.user \notin authenticated
    /\ result.status = "error"
    /\ tasks_memory # <<>>
    /\ default_doc_id # <<>>

----------------------------------------------------------------------------
(* The result of _schedule_tasks as a partition of its input, and the      *)
(* accounting of the free slots                                            *)

\* the places of the task named name in the scheduled list
ScheduledAt(name) == {n \in DOMAIN scheduled : scheduled[n].name = name}

\* the places of the task named name in the unscheduled list
UnscheduledAt(name) == {n \in DOMAIN unscheduled : unscheduled[n].name = name}

\* the place of the task named name in the input list
InputPlace(name) == CHOOSE k \in DOMAIN tasks : tasks[k].name = name

RECURSIVE SlotMinutes(_, _)
SlotMinutes(k, tk) ==
    IF tk = <<>> THEN 0
    ELSE (IF Head(tk).slot = k THEN Head(tk).minutes ELSE 0) + SlotMinutes(k, Tail(tk))

\* C29: throughout scheduling every free slot keeps its accounting consistent:
\* its remaining duration is never negative, its current start plus its
\* remaining duration equals its original end, and the minutes allocated from
\* the slot to all tasks never exceed its original duration.
C29_SlotAccounting ==
    pc \in {"sched", "done", "formatted"} =>
        /\ Len(available_minutes) = Len(free_slots)
        /\ \A k \in DOMAIN available_minutes :
              /\ available_minutes[k].duration >= 0
              /\ available_minutes[k].start + available_minutes[k].duration
                    = free_slots[k].end
              /\ available_minutes[k].end = free_slots[k].end
              /\ SlotMinutes(k, taken) <= free_slots[k].duration
              /\ SlotMinutes(k, taken) + available_minutes[k].duration
                    = free_slots[k].duration

\* two tasks took minutes from one slot, and the slot has minutes left
C29_TwoFromOneSlot ==
    /\ pc = "sched"
    /\ Len(taken) = 2
    /\ taken[1].slot = taken[2].slot
    /\ available_minutes[taken[1].slot].duration > 0

----------------------------------------------------------------------------
(* OAuthService.get_authorization_url and handle_callback: the OAuth flow. *)
(* A state value is a number; secrets.token_urlsafe(32) returns a value    *)
(* that was never returned before.                                         *)

MaxFlows == 2         \* authorization urls issued

\* a state value no authorization url carried
ForgedState == 0

\* the state values a callback may carry
CallbackStates == {ForgedState} \cup 1..MaxFlows

\* the authorization codes a callback may carry: one Google exchanges for
\* tokens, one it rejects
Codes == {"code_ok", "code_bad"}

\* what the configuration allows: the flow is built, or building it raises
\* (no redirect URI configured, no credentials file)
ConfigOutcomes == {"configured", "raises"}

\* secrets.token_urlsafe(32): a fresh value
FreshState == Len(issued) + 1

\* variant: the state stays in active_flows
WithoutState_Kept(flows, state) == flows

\* self.active_flows.pop(state): the flows that remain
WithoutState(flows, state) == [st \in DOMAIN flows \ {state} |-> flows[st]]

\* self.active_flows[state] = user_id
WithState(flows, state, user_id) ==
    [st \in DOMAIN flows \cup {state} |-> IF st = state THEN user_id ELSE flows[st]]

\* save_user_credentials: the token file of user_id is written
WithTokenFile(files, user_id, creds) ==
    [u \in DOMAIN files \cup {user_id} |-> IF u = user_id THEN creds ELSE files[u]]

\* get_authorization_url(user_id)
GetAuthorizationUrl ==
    /\ pc = "oauth"
    /\ Len(issued) < MaxFlows
    /\ \E user_id \in Users, config \in ConfigOutcomes :
          IF config = "raises"
          THEN /\ result' = [op |-> "get_authorization_url", user_id |-> user_id,
                             state |-> ForgedState, code |-> "", raised |-> TRUE,
                             returned |-> <<>>]
               /\ UNCHANGED <<active_flows, issued>>
          ELSE /\ active_flows' = WithState(active_flows, FreshState, user_id)
               /\ issued' = Append(issued, [state |-> FreshState, user_id |-> user_id,
                                            used |-> FALSE])
               /\ result' = [op |-> "get_authorization_url", user_id |-> user_id,
                             state |-> FreshState, code |-> "", raised |-> FALSE,
                             returned |-> <<FreshState>>]
    /\ UNCHANGED <<pc, schedVars, carryover, tasks_memory, still_on_list, all_tasks>>
    /\ UNCHANGED <<doc, failures, default_doc_id, doc_appended, authenticated, added,
                   chosen_doc>>
    /\ UNCHANGED <<now, rate_limit_store, allowed_log, checks, raw_user_id, token_files>>

\* handle_callback(authorization_code, state); the history notes that a callback
\* has carried the state
HandleCallback ==
    /\ pc = "oauth"
    /\ \E state \in CallbackStates, authorization_code \in Codes,
          config \in ConfigOutcomes :
          LET Answer(raised, returned) ==
                  result' = [op |-> "handle_callback", user_id |-> "", state |-> state,
                             code |-> authorization_code, raised |-> raised,
                             returned |-> returned]
          IN  IF state \notin DOMAIN active_flows
              THEN /\ Answer(FALSE, <<>>)
                   /\ UNCHANGED <<active_flows, token_files, authenticated>>
              ELSE LET user_id == active_flows[state]
                   IN  /\ active_flows' = WithoutState(active_flows, state)
                       /\ IF config = "raises"
                          THEN /\ Answer(TRUE, <<>>)
                               /\ UNCHANGED <<token_files, authenticated>>
                          ELSE IF authorization_code # "code_ok"
                          THEN /\ Answer(FALSE, <<>>)
                               /\ UNCHANGED <<token_files, authenticated>>
                          ELSE /\ token_files' =
                                     WithTokenFile(token_files, user_id,
                                                   [code |-> authorization_code,
                                                    state |-> state])
                               /\ authenticated' = authenticated \cup {user_id}
                               /\ Answer(FALSE, <<user_id>>)
    /\ issued' = [i \in DOMAIN issued |->
                    IF issued[i].state = result'.state
                    THEN [issued[i] EXCEPT !.used = TRUE] ELSE issued[i]]
    /\ UNCHANGED <<pc, schedVars, carryover, tasks_memory, still_on_list, all_tasks>>
    /\ UNCHANGED <<doc, failures, default_doc_id, doc_appended, added, chosen_doc>>
    /\ UNCHANGED <<now, rate_limit_store, allowed_log, checks, raw_user_id>>

InitOAuth ==
    /\ active_flows = <<>>
    /\ token_files = <<>>
    /\ issued = <<>>
    /\ now = 0
    /\ rate_limit_store = <<>>
    /\ allowed_log = <<>>
    /\ checks = 0
    /\ raw_user_id = <<>>
    /\ pc = "oauth"
    /\ EnvIdle
    /\ carryover = <<>>
    /\ tasks_memory = <<>>
    /\ still_on_list = <<>>
    /\ all_tasks = <<>>
    /\ SchedIdle

NextOAuth == GetAuthorizationUrl \/ HandleCallback

SpecOAuth == InitOAuth /\ [][NextOAuth]_vars

\* the state was issued and no callback has carried it yet
IssuedAndUnused(state) ==
    \E i \in DOMAIN issued : issued[i].state = state /\ ~issued[i].used

\* the user the state was issued for
IssuedFor(state) ==
    issued[CHOOSE i \in DOMAIN issued : issued[i].state = state].user_id

\* the flows that are active are the states issued and not yet carried by a
\* callback, each with the user it was issued for
C30_Flows ==
    pc = "oauth" =>
        \A state \in DOMAIN active_flows :
            IssuedAndUnused(state) /\ active_flows[state] = IssuedFor(state)

\* one callback: it succeeds only for a state issued and unused, and then for
\* the user the state was issued for; it returns None and stores nothing for
\* any other state; the state is gone afterwards; a token file is written only
\* for the user the state was issued for
C30_Step ==
    (pc = "oauth" /\ result'.op = "handle_callback") =>
        LET state == result'.state
        IN  /\ result'.returned # <<>> =>
                  /\ IssuedAndUnused(state)
                  /\ result'.returned = <<IssuedFor(state)>>
                  /\ IssuedFor(state) \in DOMAIN token_files'
            /\ ~IssuedAndUnused(state) =>
                  /\ result'.returned = <<>>
                  /\ ~result'.raised
                  /\ token_files' = token_files
            /\ state \notin DOMAIN active_flows'
            /\ \A u \in DOMAIN token_files' :
                  (u \notin DOMAIN token_files \/ token_files'[u] # token_files[u]) =>
                      IssuedAndUnused(state) /\ u = IssuedFor(state)

\* C30: an OAuth state value is single-use and bound to the user that requested
\* it: handle_callback succeeds only for a state issued by get_authorization_url
\* and not yet consumed, returns None for an unknown state without storing
\* credentials, removes the state on its first use even when the token exchange
\* fails, and stores credentials only for the user the state was issued for.
C30_StateSingleUse == []C30_Flows /\ [][C30_Step]_vars

\* a state that stored credentials for its user is refused when it comes again
C30_SecondUseRefused ==
    /\ pc = "oauth"
    /\ result # <<>>
    /\ result.op = "handle_callback"
    /\ result.returned = <<>>
    /\ \E i \in DOMAIN issued :
          /\ issued[i].state = result.state
          /\ issued[i].used
          /\ issued[i].user_id \in DOMAIN token_files
          /\ token_files[issued[i].user_id].state = result.state
====
